---------------------------- MODULE Spec2Model ----------------------------
(***************************************************************************)
(* xpybutil: the event queue, the dispatch loop and the callback registry  *)
(* of xpybutil/event.py.                                                   *)
(*                                                                         *)
(* The deque __queue is a sequence whose index 1 is the LEFT end of the    *)
(* deque: appendleft(e) puts e at index 1, pop() removes the last index.   *)
(* The dict __callbacks is a function whose DOMAIN is the set of keys      *)
(* present in the dict.  An event is a record; an attribute the event's    *)
(* class does not have (hasattr false) holds Absent.  The field id is the  *)
(* identity of the event object: its position in the transport's arrival   *)
(* order.                                                                  *)
(***************************************************************************)
EXTENDS Naturals, Sequences, FiniteSets, TLC

\* ------------------------------------------------------------------ bounds
\* Number of events the transport delivers in one behaviour of Spec.
MaxEvents == 2

\* Number of events the transport delivers in one behaviour of SpecRoute.
MaxRouteEvents == 1

\* Total number of callbacks registered at one time.
MaxRegistered == 2

\* ------------------------------------------------------------- vocabulary
\* Python's None (the wildcard window of a registration key).
None == "None"

\* hasattr(e, field) is false.
Absent == "absent"

\* xpybutil.root, the root window of the first screen.
root == "root"

\* Window identifiers seen by the program.
Windows == {root, "w1"}

\* User callbacks.
Callbacks == {"cb1", "cb2"}

\* The members of xproto named '<X>Event' (the modelled part of them).
XprotoEvents ==
    {"KeyPressEvent", "KeyReleaseEvent", "MapNotifyEvent", "MapRequestEvent",
     "SelectionRequestEvent", "MappingNotifyEvent"}

\* The routing attributes of each event class, as the X11 core protocol
\* defines them (KeyPress: event; MapNotify: event, window; MapRequest:
\* window; SelectionRequest: owner, requestor; MappingNotify: none).
Shape(cls, window, event, owner, requestor) ==
    [cls |-> cls, window |-> window, event |-> event, owner |-> owner,
     requestor |-> requestor]

\* Pairs of different windows.
DistinctWindows == {p \in Windows \X Windows : p[1] # p[2]}

\* The events SpecRoute delivers; an event with two routing attributes
\* carries two different windows in them.
RouteShapes ==
       {Shape("KeyPressEvent", Absent, w, Absent, Absent) : w \in Windows}
  \cup {Shape("MapNotifyEvent", p[1], p[2], Absent, Absent) :
            p \in DistinctWindows}
  \cup {Shape("MapRequestEvent", w, Absent, Absent, Absent) : w \in Windows}
  \cup {Shape("SelectionRequestEvent", Absent, Absent, p[1], p[2]) :
            p \in DistinctWindows}
  \cup {Shape("MappingNotifyEvent", Absent, Absent, Absent, Absent)}

\* The events Spec delivers.
QueueShapes ==
    {Shape("KeyPressEvent", Absent, root, Absent, Absent),
     Shape("MappingNotifyEvent", Absent, Absent, Absent, Absent)}

\* The registrations <<event name, window>> SpecRoute makes and asks about.
RouteRegs ==
    {<<"MapNotify", root>>, <<"MapNotify", "w1">>, <<"MapRequest", root>>,
     <<"MapRequest", "w1">>, <<"MappingNotify", None>>, <<"Bogus", root>>}

\* The events SpecReentrant delivers.
ReentrantShapes ==
    {Shape("MapNotifyEvent", root, "w1", Absent, Absent),
     Shape("MapRequestEvent", "w1", Absent, Absent, Absent)}

\* The registrations SpecReentrant makes and asks about.
ReentrantRegs == {<<"MapNotify", root>>, <<"MapRequest", root>>}

\* The registrations Spec makes.
QueueRegs == {<<"KeyPress", root>>}

\* The event object with identity i and shape s.
MkEvent(i, s) ==
    [id |-> i, cls |-> s.cls, window |-> s.window, event |-> s.event,
     owner |-> s.owner, requestor |-> s.requestor]

\* ---------------------------------------------------------------- helpers
\* The ids of a sequence of events.
Ids(s) == [i \in 1..Len(s) |-> s[i].id]

\* Number of occurrences of x in the sequence s.
Count(x, s) == Cardinality({i \in 1..Len(s) : s[i] = x})

\* s is a prefix of t.
IsPrefix(s, t) == Len(s) <= Len(t) /\ SubSeq(t, 1, Len(s)) = s

------------------------------------------------------------------------------
VARIABLES
    pending,      \* transport: events arrived and not yet read, oldest first
    arrived,      \* number of events the transport has delivered so far
    queue,        \* __queue
    callbacks,    \* __callbacks
    pc,           \* where the program is: "idle" (top level, main() not
                  \* called), or inside main()
    cur,          \* main(): the loop variable e
    curKey,       \* main(): key
    curList,      \* main(): the list object the inner for loop iterates
    curAttached,  \* main(): that list object is still __callbacks[key]
    curStart,     \* the callbacks of the key when main() looked the key up
    idx,          \* main(): position of the inner for loop in curList
    touched,      \* connect/disconnect was called during this dispatch
    yielded,      \* every event queue() has yielded, in order, to anyone
    dispatched,   \* ids of the events main() took from queue(), in order
    invoked,      \* <<event id, callback>> of every cb(e) main() made
    ret,          \* the last call of the module's API and its outcome
    exc,          \* main(): the exception that ended it, or None
    call,         \* the call of a function under examination: its arguments
    result,       \* what that call returned or raised, once it was made
    atom_cache,   \* util.__atom_cache: atom name -> identifier
    atom_nm_cache,\* util.__atom_nm_cache: identifier -> atom name
    serverAtoms,  \* the X server's atoms: name -> identifier
    interns,      \* InternAtom requests sent so far, per atom name
    nameReqs,     \* GetAtomName requests sent so far, per identifier
    atomCalls,    \* number of calls of the atom functions made so far
    atomRet,      \* the last call of an atom function and its value
    kbmap,        \* keybind.__kbmap: the keyboard mapping last fetched
    serverMap,    \* the X server's keyboard mapping
    keybinds,     \* keybind.__keybinds: (wid, mods, kc) -> callbacks
    keygrabs,     \* keybind.__keygrabs: (wid, mods, kc) -> number of grabs
    grabs,        \* the passive key grabs this client holds on the server
    foreign,      \* the passive key grabs other clients hold
    fired,        \* <<event id, callback>> of every cb() of the keybind
                  \* dispatcher
    bound,        \* the bind_key calls that returned True
    grabCalls,    \* number of calls of grab_key so far
    ungrabCalls,  \* number of calls of ungrab_key so far
    keyCalls,     \* number of calls of the keybind API by user code
    keyRet        \* the last call of the keybind API and its outcome

\* The state of xpybutil/event.py.
eventVars == <<pending, arrived, queue, callbacks, pc, cur, curKey, curList,
               curAttached, curStart, idx, touched, yielded, dispatched,
               invoked, ret>>

\* The state added by the other parts of the model.
fatalVars == <<exc>>
callVars == <<call, result>>
atomVars == <<atom_cache, atom_nm_cache, serverAtoms, interns, nameReqs,
              atomCalls, atomRet>>
keyVars == <<kbmap, serverMap, keybinds, keygrabs, grabs, foreign, fired,
             bound, grabCalls, ungrabCalls, keyCalls, keyRet>>
extVars == <<fatalVars, callVars, atomVars, keyVars>>

vars == <<eventVars, extVars>>

\* No function is under examination.
NoCall == [op |-> "none"]
NoResult == [op |-> "none"]

mainVars == <<cur, curKey, curList, curAttached, curStart, idx>>

NoEvent == [id |-> 0, cls |-> "", window |-> Absent, event |-> Absent,
            owner |-> Absent, requestor |-> Absent]

\* The record of a call of the API that returned None.
Returned(op) ==
    [op |-> op, raised |-> FALSE, truth |-> FALSE, events |-> <<>>,
     block |-> FALSE, waits |-> 0]

\* The record of a call that returned the boolean b.
ReturnedTruth(op, b) == [Returned(op) EXCEPT !.truth = b]

\* The record of a call that returned or yielded the events es.
ReturnedEvents(op, es) == [Returned(op) EXCEPT !.events = es]

\* The record of a call that failed its assert.
AssertionError(op) == [Returned(op) EXCEPT !.raised = TRUE]

\* ---------------------------------------------------------------- deque
\* Mutant of AppendLeft: the event is appended at the right end.
AppendRight(q, e) == Append(q, e)

\* deque.appendleft
AppendLeft(q, e) == <<e>> \o q

\* Mutant of Pop: popleft, the element is taken from the left end.
PopLeft(q) == [value |-> Head(q), rest |-> Tail(q)]

\* deque.pop on a non-empty deque: the element removed and the deque left
Pop(q) == [value |-> q[Len(q)], rest |-> SubSeq(q, 1, Len(q) - 1)]

\* queue() run to exhaustion on the deque q: the events it yields, in order.
RECURSIVE DrainOrder(_)
DrainOrder(q) ==
    IF Len(q) = 0 THEN <<>>
    ELSE <<Pop(q).value>> \o DrainOrder(Pop(q).rest)

\* ------------------------------------------------------------- read()
\* Mutant of ReadPoll: a single poll instead of the loop.
ReadPollOnce(q, p, nwait) ==
    IF p = <<>> THEN <<q, p, nwait>>
    ELSE <<<<Head(p)>> \o q, Tail(p), nwait>>

\* The while loop of read(): poll until a poll yields nothing.  The result
\* is <<the queue, the transport's buffer, the blocking waits made>>.
RECURSIVE ReadPoll(_, _, _)
ReadPoll(q, p, nwait) ==
    IF p = <<>> THEN <<q, p, nwait>>
    ELSE ReadPoll(AppendLeft(q, Head(p)), Tail(p), nwait)

\* read(block): conn.wait_for_event() returns the oldest event of the
\* transport (and blocks while there is none).
ReadResult(block, q, p) ==
    IF block THEN ReadPoll(AppendLeft(q, Head(p)), Tail(p), 1)
    ELSE ReadPoll(q, p, 0)

ReadCall(block) ==
    /\ block => pending # <<>>
    /\ queue' = ReadResult(block, queue, pending)[1]
    /\ pending' = ReadResult(block, queue, pending)[2]
    /\ ret' = [Returned("read") EXCEPT
                  !.block = block,
                  !.waits = ReadResult(block, queue, pending)[3]]

\* ------------------------------------------------------------- registry
\* '%sEvent' % event_name
Member(event_name) == event_name \o "Event"

\* Mutant of HasMember: the assert is missing.
HasAnyMember(member) == TRUE

\* hasattr(xproto, member)
HasMember(member) == member \in XprotoEvents

\* (getattr(xproto, member), window)
Key(event_name, window) == <<Member(event_name), window>>

\* __callbacks.get(key, [])
Registered(key) ==
    IF key \in DOMAIN callbacks THEN callbacks[key] ELSE <<>>

RECURSIVE SumLen(_, _)
SumLen(f, ks) ==
    IF ks = {} THEN 0
    ELSE LET k == CHOOSE k \in ks : TRUE
         IN  Len(f[k]) + SumLen(f, ks \ {k})

\* Number of callbacks in the registry.
TotalRegistered == SumLen(callbacks, DOMAIN callbacks)

\* The callers of the API: the top level before main() is called, and a
\* callback that main() is running.
InUserCode == pc \in {"idle", "in_callback"}

\* main() is inside its inner for loop.
InDispatch == pc \in {"main_dispatch", "in_callback"}

\* Mutant of IsConnectedValue: no callback is ever found.
IsConnectedNever(key, callback) == FALSE

\* callback in __callbacks[key], for a key of the dict
IsConnectedValue(key, callback) ==
    /\ key \in DOMAIN callbacks
    /\ \E i \in 1..Len(callbacks[key]) : callbacks[key][i] = callback

IsConnected(event_name, window, callback) ==
    /\ InUserCode
    /\ ret' = IF ~HasMember(Member(event_name))
              THEN AssertionError("is_connected")
              ELSE ReturnedTruth("is_connected",
                                 IsConnectedValue(Key(event_name, window),
                                                  callback))
    /\ UNCHANGED <<pending, arrived, queue, callbacks, pc, mainVars,
                   touched, yielded, dispatched, invoked>>
    /\ UNCHANGED extVars

\* Mutant of ConnectedList: a callback already in the list is not added.
ConnectedListDedup(key, callback) ==
    IF \E i \in 1..Len(Registered(key)) : Registered(key)[i] = callback
    THEN Registered(key)
    ELSE Append(Registered(key), callback)

\* __callbacks[key].append(callback): the list of the key afterwards.
ConnectedList(key, callback) == Append(Registered(key), callback)

Connect(event_name, window, callback) ==
    /\ InUserCode
    /\ TotalRegistered < MaxRegistered
    /\ IF ~HasMember(Member(event_name))
       THEN /\ ret' = AssertionError("connect")
            /\ UNCHANGED <<callbacks, curList, touched>>
       ELSE LET key == Key(event_name, window)
            IN  /\ callbacks' =
                      [k \in DOMAIN callbacks \cup {key} |->
                          IF k = key THEN ConnectedList(key, callback)
                          ELSE callbacks[k]]
                \* the list main() is iterating is this very list object
                /\ curList' = IF InDispatch /\ curAttached /\ key = curKey
                              THEN Append(curList, callback)
                              ELSE curList
                /\ touched' = (touched \/ InDispatch)
                /\ ret' = Returned("connect")
    /\ UNCHANGED <<pending, arrived, queue, pc, cur, curKey, curAttached,
                   curStart, idx, yielded, dispatched, invoked>>
    /\ UNCHANGED extVars

\* Mutant of Disconnected: only the first callback of the key is removed.
DisconnectedFirst(key) ==
    IF key \in DOMAIN callbacks
    THEN [callbacks EXCEPT ![key] = IF @ = <<>> THEN @ ELSE Tail(@)]
    ELSE callbacks

\* del __callbacks[key], when the key is in the dict: the dict afterwards.
Disconnected(key) ==
    IF key \in DOMAIN callbacks
    THEN [k \in DOMAIN callbacks \ {key} |-> callbacks[k]]
    ELSE callbacks

Disconnect(event_name, window) ==
    /\ InUserCode
    /\ IF ~HasMember(Member(event_name))
       THEN /\ ret' = AssertionError("disconnect")
            /\ UNCHANGED <<callbacks, curAttached, touched>>
       ELSE LET key == Key(event_name, window)
            IN  /\ callbacks' = Disconnected(key)
                \* the list main() is iterating is no longer in the dict
                /\ curAttached' =
                      (curAttached /\ ~(InDispatch /\ key = curKey))
                /\ touched' = (touched \/ InDispatch)
                /\ ret' = Returned("disconnect")
    /\ UNCHANGED <<pending, arrived, queue, pc, cur, curKey, curList,
                   curStart, idx, yielded, dispatched, invoked>>
    /\ UNCHANGED extVars

\* ----------------------------------------------------- read, queue, peek
Read(block) ==
    /\ InUserCode
    /\ ReadCall(block)
    /\ UNCHANGED <<arrived, callbacks, pc, mainVars, touched, yielded,
                   dispatched, invoked>>
    /\ UNCHANGED extVars

\* One step of a generator made by queue(), run by user code: the loop test
\* and, when the deque is not empty, the yield of __queue.pop().
QueueNext ==
    /\ InUserCode
    /\ IF Len(queue) > 0
       THEN /\ queue' = Pop(queue).rest
            /\ yielded' = Append(yielded, Pop(queue).value)
            /\ ret' = ReturnedEvents("queue", <<Pop(queue).value>>)
       ELSE /\ UNCHANGED <<queue, yielded>>
            /\ ret' = Returned("queue")
    /\ UNCHANGED <<pending, arrived, callbacks, pc, mainVars, touched,
                   dispatched, invoked>>
    /\ UNCHANGED extVars

\* list(__queue): the deque from its left end to its right end.
PeekValue(q) == q

Peek ==
    /\ InUserCode
    /\ ret' = ReturnedEvents("peek", PeekValue(queue))
    /\ UNCHANGED <<pending, arrived, queue, callbacks, pc, mainVars,
                   touched, yielded, dispatched, invoked>>
    /\ UNCHANGED extVars

\* ------------------------------------------------------------- main()
\* Mutant of RoutingWindow: the attribute event is looked at before window.
RoutingWindowEventFirst(e) ==
    IF e.cls = "MappingNotifyEvent" THEN None
    ELSE IF e.cls = "MapRequestEvent" THEN root
    ELSE IF e.event # Absent THEN e.event
    ELSE IF e.window # Absent THEN e.window
    ELSE IF e.owner # Absent THEN e.owner
    ELSE IF e.requestor # Absent THEN e.requestor
    ELSE None

\* Mutant of RoutingWindow: MapRequest is routed like any other event.
RoutingWindowNoMapRequest(e) ==
    IF e.cls = "MappingNotifyEvent" THEN None
    ELSE IF e.window # Absent THEN e.window
    ELSE IF e.event # Absent THEN e.event
    ELSE IF e.owner # Absent THEN e.owner
    ELSE IF e.requestor # Absent THEN e.requestor
    ELSE None

\* Mutant of RoutingWindow: requestor is looked at before owner.
RoutingWindowRequestorFirst(e) ==
    IF e.cls = "MappingNotifyEvent" THEN None
    ELSE IF e.cls = "MapRequestEvent" THEN root
    ELSE IF e.window # Absent THEN e.window
    ELSE IF e.event # Absent THEN e.event
    ELSE IF e.requestor # Absent THEN e.requestor
    ELSE IF e.owner # Absent THEN e.owner
    ELSE None

\* The window main() routes the event e by.
RoutingWindow(e) ==
    IF e.cls = "MappingNotifyEvent" THEN None
    ELSE IF e.cls = "MapRequestEvent" THEN root
    ELSE IF e.window # Absent THEN e.window
    ELSE IF e.event # Absent THEN e.event
    ELSE IF e.owner # Absent THEN e.owner
    ELSE IF e.requestor # Absent THEN e.requestor
    ELSE None

\* key = (e.__class__, w)
RoutingKey(e) == <<e.cls, RoutingWindow(e)>>

\* The program calls main().
MainStart ==
    /\ pc = "idle"
    /\ pc' = "main_read"
    /\ UNCHANGED <<pending, arrived, queue, callbacks, mainVars, touched,
                   yielded, dispatched, invoked, ret>>
    /\ UNCHANGED extVars

\* read(block=True) at the head of the while loop.
MainRead ==
    /\ pc = "main_read"
    /\ ReadCall(TRUE)
    /\ pc' = "main_drain"
    /\ UNCHANGED <<arrived, callbacks, mainVars, touched, yielded,
                   dispatched, invoked>>
    /\ UNCHANGED extVars

\* for e in queue(): the generator's next step and, for an event, the lookup
\* of the callbacks of its key.
MainNextEvent ==
    /\ pc = "main_drain"
    /\ IF Len(queue) > 0
       THEN LET e == Pop(queue).value
            IN  /\ queue' = Pop(queue).rest
                /\ yielded' = Append(yielded, e)
                /\ dispatched' = Append(dispatched, e.id)
                /\ cur' = e
                /\ curKey' = RoutingKey(e)
                /\ curList' = Registered(RoutingKey(e))
                /\ curAttached' = (RoutingKey(e) \in DOMAIN callbacks)
                /\ curStart' = Registered(RoutingKey(e))
                /\ idx' = 1
                /\ touched' = FALSE
                /\ pc' = "main_dispatch"
                /\ ret' = ReturnedEvents("queue", <<e>>)
       ELSE /\ pc' = "main_read"
            /\ ret' = Returned("queue")
            /\ UNCHANGED <<queue, yielded, dispatched, mainVars, touched>>
    /\ UNCHANGED <<pending, arrived, callbacks, invoked>>
    /\ UNCHANGED extVars

\* for cb in __callbacks.get(key, []): the next cb(e), or the end of the loop.
MainInvoke ==
    /\ pc = "main_dispatch"
    /\ IF idx <= Len(curList)
       THEN /\ invoked' = Append(invoked, <<cur.id, curList[idx]>>)
            /\ pc' = "in_callback"
       ELSE /\ pc' = "main_drain"
            /\ UNCHANGED invoked
    /\ UNCHANGED <<pending, arrived, queue, callbacks, mainVars, touched,
                   yielded, dispatched, ret>>
    /\ UNCHANGED extVars

\* cb(e) returns.
CallbackReturn ==
    /\ pc = "in_callback"
    /\ pc' = "main_dispatch"
    /\ idx' = idx + 1
    /\ UNCHANGED <<pending, arrived, queue, callbacks, cur, curKey, curList,
                   curAttached, curStart, touched, yielded, dispatched,
                   invoked, ret>>
    /\ UNCHANGED extVars

\* The exceptions a callback raises: one of the X connection's (caught by
\* main() as xcb_Exception) and one of any other class.
xcb_Exception == "xcb_Exception"
Exceptions == {xcb_Exception, "Exception"}

\* Mutant of MainAfterRaise: the exception is caught around the one callback
\* and the inner for loop goes on.
MainAfterRaiseIsolated(kind) == "main_dispatch"

\* main() when cb(e) raises: the try statement encloses the whole while
\* loop and its except clause names xcb_Exception only.  "exited" is main()
\* after traceback.print_exc() and sys.exit(1); "propagated" is main() left
\* by an exception it does not catch, which is the caller's (with no handler
\* there the interpreter prints the traceback and the process ends).
MainAfterRaise(kind) ==
    IF kind = xcb_Exception THEN "exited" ELSE "propagated"

\* cb(e) raises an exception of the given kind.
CallbackRaise(kind) ==
    /\ pc = "in_callback"
    /\ pc' = MainAfterRaise(kind)
    /\ exc' = kind
    /\ UNCHANGED <<pending, arrived, queue, callbacks, mainVars, touched,
                   yielded, dispatched, invoked, ret, callVars, atomVars,
                   keyVars>>

\* ---------------------------------------------------------- the transport
\* The X server sends an event: it waits in the transport's buffer.
Arrive(s, max) ==
    /\ arrived < max
    /\ arrived' = arrived + 1
    /\ pending' = Append(pending, MkEvent(arrived + 1, s))
    /\ UNCHANGED <<queue, callbacks, pc, mainVars, touched, yielded,
                   dispatched, invoked, ret>>
    /\ UNCHANGED extVars

\* ------------------------------------------------- pack_client_message
\* Event.ClientMessageEvent
ClientMessageEvent == 33

\* Number of data words in the calls of pack_client_message examined.
MaxDataWords == 6

\* sys.byteorder of the host: struct.pack with a format that has no byte
\* order prefix packs in the host's native order, size and alignment.
ByteOrders == {"little", "big"}

\* The windows, message types (atoms, after util.get_atom for a name) and
\* data words of the calls examined.
PackWindows == {5, 2147483647}
PackTypes == {9, 258}
PackWords == {1, 2, 16909060}

\* The sequences over S of length at most n.
SeqUpTo(S, n) == UNION {[1..k -> S] : k \in 0..n}

PackCalls ==
    {[op |-> "pack_client_message", byteorder |-> o, window |-> w,
      message_type |-> t, data |-> d] :
        o \in ByteOrders, w \in PackWindows, t \in PackTypes,
        d \in SeqUpTo(PackWords, MaxDataWords)}

\* Byte i (0 the least significant) of the unsigned integer n.
ByteOf(n, i) == (n \div (256 ^ i)) % 256

\* struct.pack of one unsigned integer of the given size in bytes.
PackUnsigned(order, size, n) ==
    [i \in 1..size |->
        IF order = "little" THEN ByteOf(n, i - 1) ELSE ByteOf(n, size - i)]

\* Mutant of PadData: the zeros are put before the data words.
PadDataLeft(data) == [i \in 1..(5 - Len(data)) |-> 0] \o data

\* data += [0] * (5 - len(data))
PadData(data) == data \o [i \in 1..(5 - Len(data)) |-> 0]

\* The concatenation of the packed words of ws.
RECURSIVE PackWordsOf(_, _)
PackWordsOf(order, ws) ==
    IF ws = <<>> THEN <<>>
    ELSE PackUnsigned(order, 4, Head(ws)) \o PackWordsOf(order, Tail(ws))

\* pack_client_message(window, message_type, *data): the assert, the padding
\* and struct.pack('BBH7I', ...), whose fields are naturally aligned (the H
\* at offset 2, the first I at offset 4).
PackClientMessage(order, window, message_type, data) ==
    IF Len(data) > 5
    THEN [op |-> "pack_client_message", raised |-> TRUE, bytes |-> <<>>]
    ELSE [op |-> "pack_client_message", raised |-> FALSE,
          bytes |-> <<ClientMessageEvent, 32>>
                    \o PackUnsigned(order, 2, 0)
                    \o PackWordsOf(order,
                                   <<window, message_type>> \o PadData(data))]

\* The call under examination is made.
Pack ==
    /\ call.op = "pack_client_message"
    /\ result = NoResult
    /\ result' = PackClientMessage(call.byteorder, call.window,
                                   call.message_type, call.data)
    /\ UNCHANGED <<eventVars, fatalVars, call, atomVars, keyVars>>

\* --------------------------------------------------- get_property_value
\* The major version of the Python that runs the library (util.py and
\* event.py test sys.version_info for it).
Pythons == {2, 3}

\* Length of the format-8 buffers examined.
MaxBufLen == 4

\* The bytes of the format-8 buffers examined: NUL, 'a', and the two bytes
\* of the UTF-8 encoding of U+00E9.
TextBytes == {0, 97, 195, 169}

\* A GetProperty reply: format, value_len and value.buf().
PropertyReply(format, value_len, buf) ==
    [format |-> format, value_len |-> value_len, buf |-> buf]

\* The reply for a property that is not set.
UnsetReply == PropertyReply(0, 0, <<>>)

\* What get_property_value returns: None, one string, a list of strings or a
\* list of integers, or the exception it raises.  A string is the sequence
\* of its code points.
ValueNone == [tag |-> "none", strs |-> <<>>, ints |-> <<>>]
ValueStr(t) == [tag |-> "str", strs |-> <<t>>, ints |-> <<>>]
ValueStrs(ts) == [tag |-> "strs", strs |-> ts, ints |-> <<>>]
ValueInts(ns) == [tag |-> "ints", strs |-> <<>>, ints |-> ns]
ValueRaised == [tag |-> "raised", strs |-> <<>>, ints |-> <<>>]

\* bytes.split(b'\0')
RECURSIVE SplitNul(_)
SplitNul(bs) ==
    IF \A i \in 1..Len(bs) : bs[i] # 0 THEN <<bs>>
    ELSE LET i == CHOOSE i \in 1..Len(bs) :
                      bs[i] = 0 /\ \A j \in 1..(i - 1) : bs[j] # 0
         IN  <<SubSeq(bs, 1, i - 1)>> \o SplitNul(SubSeq(bs, i + 1, Len(bs)))

\* if ret[-1] == '': ret.pop().  ret holds bytes objects: in Python 2 bytes
\* is str and b'' == '' is true, in Python 3 a bytes object never equals a
\* str and nothing is popped.
DropTrailingEmpty(python, segs) ==
    IF python = 2 /\ segs[Len(segs)] = <<>>
    THEN SubSeq(segs, 1, Len(segs) - 1)
    ELSE segs

\* bytes.decode('utf-8') of sequences of one and two bytes: the code points,
\* or ok false for UnicodeDecodeError.
RECURSIVE Utf8Decode(_)
Utf8Decode(bs) ==
    IF bs = <<>> THEN [ok |-> TRUE, text |-> <<>>]
    ELSE IF bs[1] < 128
    THEN LET r == Utf8Decode(Tail(bs))
         IN  [ok |-> r.ok, text |-> IF r.ok THEN <<bs[1]>> \o r.text ELSE <<>>]
    ELSE IF bs[1] \in 194..223 /\ Len(bs) >= 2 /\ bs[2] \in 128..191
    THEN LET r == Utf8Decode(SubSeq(bs, 3, Len(bs)))
         IN  [ok |-> r.ok,
              text |-> IF r.ok
                       THEN <<(bs[1] - 192) * 64 + (bs[2] - 128)>> \o r.text
                       ELSE <<>>]
    ELSE [ok |-> FALSE, text |-> <<>>]

\* struct.unpack of one unsigned integer from the bytes bs.
UnpackUnsigned(order, bs) ==
    LET w(i) == IF order = "little" THEN i - 1 ELSE Len(bs) - i
        RECURSIVE Sum(_)
        Sum(i) == IF i > Len(bs) THEN 0 ELSE bs[i] * (256 ^ w(i)) + Sum(i + 1)
    IN  Sum(1)

\* struct.unpack('I' * n, buf), for a buffer of 4 * n bytes.
UnpackWords(order, n, buf) ==
    [k \in 1..n |-> UnpackUnsigned(order, SubSeq(buf, 4 * k - 3, 4 * k))]

\* get_property_value(property_reply)
GetPropertyValue(python, order, reply) ==
    IF reply.format = 8
    THEN LET segs == DropTrailingEmpty(python, SplitNul(reply.buf))
             texts == [i \in 1..Len(segs) |-> Utf8Decode(segs[i])]
         IN  IF \E i \in 1..Len(segs) : ~texts[i].ok THEN ValueRaised
             ELSE IF Len(segs) = 1 THEN ValueStr(texts[1].text)
             ELSE ValueStrs([i \in 1..Len(segs) |-> texts[i].text])
    ELSE IF reply.format \in {16, 32}
    THEN \* struct.error when the buffer is not 4 * value_len bytes long
         IF Len(reply.buf) # 4 * reply.value_len THEN ValueRaised
         ELSE ValueInts(UnpackWords(order, reply.value_len, reply.buf))
    ELSE ValueNone

\* The calls of get_property_value examined: format-8 replies.
TextCalls ==
    {[op |-> "get_property_value", python |-> py, byteorder |-> "little",
      reply |-> PropertyReply(8, Len(b), b)] :
        py \in Pythons, b \in SeqUpTo(TextBytes, MaxBufLen)}

\* The call under examination is made.
GetValue ==
    /\ call.op = "get_property_value"
    /\ result = NoResult
    /\ result' = [op |-> "get_property_value",
                  value |-> GetPropertyValue(call.python, call.byteorder,
                                             call.reply)]
    /\ UNCHANGED <<eventVars, fatalVars, call, atomVars, keyVars>>

\* --------------------------------------- ewmh: structured properties
\* Number of viewports, workareas or icons in one property value.
MaxItems == 2

\* The structured properties examined.
CodecKinds ==
    {"strut", "strut_partial", "desktop_geometry", "desktop_viewport",
     "workarea", "icon"}

\* The keys of a partial strut, in the order set_wm_strut_partial packs them
\* and StrutPartialCookie reads them.
StrutPartial(ws) ==
    [left |-> ws[1], right |-> ws[2], top |-> ws[3], bottom |-> ws[4],
     left_start_y |-> ws[5], left_end_y |-> ws[6], right_start_y |-> ws[7],
     right_end_y |-> ws[8], top_start_x |-> ws[9], top_end_x |-> ws[10],
     bottom_start_x |-> ws[11], bottom_end_x |-> ws[12]]

\* The values written: Python dicts are records, Python lists sequences.
StrutValues == [left : {0, 7}, right : {0, 7}, top : {0, 7}, bottom : {0, 7}]

StrutPartialValues ==
       {StrutPartial([i \in 1..12 |-> 0]), StrutPartial([i \in 1..12 |-> i])}
  \cup {StrutPartial([i \in 1..12 |-> IF i = k THEN 300 + k ELSE 0]) :
            k \in 1..12}

GeometryValues == [width : {0, 1280}, height : {0, 1024}]

ViewportValues == SeqUpTo([x : {0, 500}, y : {0, 300}], MaxItems)

WorkareaValues ==
    SeqUpTo([x : {0, 5}, y : {20}, width : {0, 800}, height : {600}],
            MaxItems)

\* Icons one pixel high of at most two pixels, whose data has
\* width * height entries.
IconSizes == {sz \in (0..2) \X {1} : sz[1] * sz[2] <= 2}
Icons ==
    UNION {{[width |-> sz[1], height |-> sz[2], data |-> d] :
                d \in [1..(sz[1] * sz[2]) -> {0, 16711935}]} :
           sz \in IconSizes}
IconValues == SeqUpTo(Icons, MaxItems)

CodecValues(kind) ==
    CASE kind = "strut" -> StrutValues
      [] kind = "strut_partial" -> StrutPartialValues
      [] kind = "desktop_geometry" -> GeometryValues
      [] kind = "desktop_viewport" -> ViewportValues
      [] kind = "workarea" -> WorkareaValues
      [] kind = "icon" -> IconValues

\* The concatenation of the sequences of ss.
RECURSIVE Flatten(_)
Flatten(ss) == IF ss = <<>> THEN <<>> ELSE Head(ss) \o Flatten(Tail(ss))

\* The list of integers each setter packs.
EncodedWords(kind, v) ==
    CASE kind = "strut" -> <<v.left, v.right, v.top, v.bottom>>
      [] kind = "strut_partial" ->
            <<v.left, v.right, v.top, v.bottom, v.left_start_y, v.left_end_y,
              v.right_start_y, v.right_end_y, v.top_start_x, v.top_end_x,
              v.bottom_start_x, v.bottom_end_x>>
      [] kind = "desktop_geometry" -> <<v.width, v.height>>
      [] kind = "desktop_viewport" ->
            Flatten([i \in 1..Len(v) |-> <<v[i].x, v[i].y>>])
      [] kind = "workarea" ->
            Flatten([i \in 1..Len(v) |->
                        <<v[i].x, v[i].y, v[i].width, v[i].height>>])
      [] kind = "icon" ->
            Flatten([i \in 1..Len(v) |->
                        <<v[i].width, v[i].height>> \o v[i].data])

\* The setter: struct.pack('I' * n, ...) and ChangeProperty(Replace, ...,
\* CARDINAL, 32, n, packed); the value is the reply a later GetProperty of
\* the property gets.
SetProperty(kind, order, v) ==
    LET ws == EncodedWords(kind, v)
    IN  PropertyReply(32, Len(ws), PackWordsOf(order, ws))

\* What a cookie's reply() returns: None, a value, or an exception.
DecodedNone == [tag |-> "none", value |-> <<>>]
Decoded(v) == [tag |-> "value", value |-> v]
DecodedRaised == [tag |-> "raised", value |-> <<>>]

\* A value of the given kind of property, labelled with the kind (the
\* values of different kinds are of different types).
OfKind(kind, v) == [k \in {kind} |-> v]

\* The loop of DesktopViewportCookie.reply and WorkareaCookie.reply over the
\* list ns in steps of n: the groups of n integers, or <<>> and ok false
\* when an index is out of range.
GroupsOf(n, ns) ==
    IF Len(ns) % n # 0 THEN [ok |-> FALSE, groups |-> <<>>]
    ELSE [ok |-> TRUE,
          groups |-> [g \in 1..(Len(ns) \div n) |->
                         SubSeq(ns, n * (g - 1) + 1, n * g)]]

\* v[a:b] of a Python list, 0-based and cut at the end of the list.
Slice(ns, a, b) ==
    IF a >= Len(ns) THEN <<>>
    ELSE SubSeq(ns, a + 1, IF b > Len(ns) THEN Len(ns) ELSE b)

\* The while loop of IconCookie.reply from the 0-based index start.
RECURSIVE IconLoop(_, _)
IconLoop(ns, start) ==
    IF start >= Len(ns) THEN [ok |-> TRUE, icons |-> <<>>]
    ELSE IF start + 1 >= Len(ns) THEN [ok |-> FALSE, icons |-> <<>>]
    ELSE LET w == ns[start + 1]
             h == ns[start + 2]
             rest == IconLoop(ns, start + w * h + 2)
         IN  [ok |-> rest.ok,
              icons |-> IF rest.ok
                        THEN <<[width |-> w, height |-> h,
                                data |-> Slice(ns, start + 2,
                                               start + w * h + 2)]>>
                             \o rest.icons
                        ELSE <<>>]

\* Mutant of IsFalsy: only None is treated as no value.
IsNoneOnly(pv) == pv.tag = "none"

\* not v, for the value v get_property_value returned: None, an empty list
\* and an empty string are all false.
IsFalsy(pv) ==
    \/ pv.tag = "none"
    \/ pv.tag = "ints" /\ pv.ints = <<>>
    \/ pv.tag = "strs" /\ pv.strs = <<>>
    \/ pv.tag = "str" /\ pv.strs = <<<<>>>>

\* reply() of the structured cookies, for the value pv of a property of
\* format 32 (or of no property).
CookieReply(kind, python, pv) ==
    IF pv.tag = "raised" THEN DecodedRaised
    ELSE IF IsFalsy(pv) THEN DecodedNone
    ELSE LET v == pv.ints
         IN  CASE kind = "strut" ->
                    IF Len(v) < 4 THEN DecodedRaised
                    ELSE Decoded([left |-> v[1], right |-> v[2],
                                  top |-> v[3], bottom |-> v[4]])
               [] kind = "strut_partial" ->
                    IF Len(v) < 12 THEN DecodedRaised
                    ELSE Decoded(StrutPartial(v))
               [] kind = "desktop_geometry" ->
                    IF Len(v) < 2 THEN DecodedRaised
                    ELSE Decoded([width |-> v[1], height |-> v[2]])
               [] kind = "desktop_viewport" ->
                    \* xrange is not defined under Python 3
                    IF python = 3 \/ ~GroupsOf(2, v).ok THEN DecodedRaised
                    ELSE Decoded([g \in 1..(Len(v) \div 2) |->
                                     [x |-> GroupsOf(2, v).groups[g][1],
                                      y |-> GroupsOf(2, v).groups[g][2]]])
               [] kind = "workarea" ->
                    IF python = 3 \/ ~GroupsOf(4, v).ok THEN DecodedRaised
                    ELSE Decoded([g \in 1..(Len(v) \div 4) |->
                                     [x |-> GroupsOf(4, v).groups[g][1],
                                      y |-> GroupsOf(4, v).groups[g][2],
                                      width |-> GroupsOf(4, v).groups[g][3],
                                      height |-> GroupsOf(4, v).groups[g][4]]])
               [] kind = "icon" ->
                    IF ~IconLoop(v, 0).ok THEN DecodedRaised
                    ELSE Decoded(IconLoop(v, 0).icons)

\* The calls examined: a setter with a value, then the getter's reply().
CodecCalls ==
    UNION {{[op |-> "set_get", kind |-> k, python |-> py, byteorder |-> o,
             value |-> OfKind(k, v)] :
                py \in Pythons, o \in ByteOrders, v \in CodecValues(k)} :
           k \in CodecKinds}

\* The call under examination is made.
SetGet ==
    /\ call.op = "set_get"
    /\ result = NoResult
    /\ LET reply == SetProperty(call.kind, call.byteorder,
                                call.value[call.kind])
           pv == GetPropertyValue(call.python, call.byteorder, reply)
           r == CookieReply(call.kind, call.python, pv)
       IN  result' = [op |-> "set_get", tag |-> r.tag,
                      value |-> OfKind(IF r.tag = "value" THEN call.kind
                                       ELSE r.tag, r.value)]
    /\ UNCHANGED <<eventVars, fatalVars, call, atomVars, keyVars>>

\* ------------------------------------------------------- the atom cache
\* Number of calls of get_atom, get_atom_name and build_atom_cache in one
\* behaviour.
MaxAtomCalls == 3

\* Atom names: one the server has from the start (a predefined atom) and
\* one it has only once a client interns it.
AtomNames == {"PRIMARY", "_NET_WM_NAME"}

\* The server's atoms when the program connects.
PredefinedAtoms == [n \in {"PRIMARY"} |-> 1]

\* The identifiers the server can hand out.
AtomIds == 1..Cardinality(AtomNames)

\* The values of a function.
Range(f) == {f[x] : x \in DOMAIN f}

\* The function f extended or changed to map k to v.
Updated(f, k, v) == [x \in DOMAIN f \cup {k} |-> IF x = k THEN v ELSE f[x]]

\* The identifier a new atom gets.
NextAtomId(srv) == Cardinality(DOMAIN srv) + 1

\* InternAtom(only_if_exists, name): the reply's atom, 0 (None) for a name
\* the server does not have when only_if_exists is set.
InternAtomReply(srv, name, only_if_exists) ==
    IF name \in DOMAIN srv THEN srv[name]
    ELSE IF only_if_exists THEN 0
    ELSE NextAtomId(srv)

\* InternAtom(only_if_exists, name): the server's atoms afterwards.
InternAtomEffect(srv, name, only_if_exists) ==
    IF name \in DOMAIN srv \/ only_if_exists THEN srv
    ELSE Updated(srv, name, NextAtomId(srv))

\* GetAtomName(atom): the reply's name.
AtomNameReply(srv, atom) == CHOOSE n \in DOMAIN srv : srv[n] = atom

\* dict.setdefault(k, v): the dict afterwards.
SetDefault(d, k, v) == IF k \in DOMAIN d THEN d ELSE Updated(d, k, v)

\* The record of a call of an atom function.
AtomReturned(op, name, atom) == [op |-> op, name |-> name, atom |-> atom]

\* get_atom(atom_name, only_if_exists).  The second argument of setdefault
\* is evaluated before setdefault is called: __get_atom_cookie sends the
\* InternAtom request and .reply() waits for its reply on every call.
GetAtom(atom_name, only_if_exists) ==
    /\ atomCalls < MaxAtomCalls
    /\ atomCalls' = atomCalls + 1
    /\ interns' = [interns EXCEPT ![atom_name] = @ + 1]
    /\ serverAtoms' = InternAtomEffect(serverAtoms, atom_name, only_if_exists)
    /\ atom_cache' =
          SetDefault(atom_cache, atom_name,
                     InternAtomReply(serverAtoms, atom_name, only_if_exists))
    /\ atomRet' = AtomReturned("get_atom", atom_name, atom_cache'[atom_name])
    /\ UNCHANGED <<atom_nm_cache, nameReqs>>
    /\ UNCHANGED <<eventVars, fatalVars, callVars, keyVars>>

\* get_atom_name(atom), for an identifier the server has.  As in get_atom
\* the request is sent and its reply awaited before setdefault is called.
GetAtomName(atom) ==
    /\ atomCalls < MaxAtomCalls
    /\ atom \in Range(serverAtoms)
    /\ atomCalls' = atomCalls + 1
    /\ nameReqs' = [nameReqs EXCEPT ![atom] = @ + 1]
    /\ atom_nm_cache' =
          SetDefault(atom_nm_cache, atom, AtomNameReply(serverAtoms, atom))
    /\ atomRet' = AtomReturned("get_atom_name", atom_nm_cache'[atom], atom)
    /\ UNCHANGED <<atom_cache, serverAtoms, interns>>
    /\ UNCHANGED <<eventVars, fatalVars, callVars, keyVars>>

\* The lists of names build_atom_cache is called with.
AtomLists ==
    {<<"PRIMARY">>, <<"_NET_WM_NAME">>, <<"PRIMARY", "_NET_WM_NAME">>}

\* The first loop of build_atom_cache over the names ns, then the second:
\* every name of the list is interned (only_if_exists false) and its cache
\* entry is set to the reply, whatever the entry held before.  The result
\* is <<the cache, the server's atoms, the requests sent per name>>.
RECURSIVE BuildLoop(_, _, _, _)
BuildLoop(ns, cache, srv, sent) ==
    IF ns = <<>> THEN <<cache, srv, sent>>
    ELSE BuildLoop(Tail(ns),
                   Updated(cache, Head(ns),
                           InternAtomReply(srv, Head(ns), FALSE)),
                   InternAtomEffect(srv, Head(ns), FALSE),
                   [sent EXCEPT ![Head(ns)] = @ + 1])

\* dict((v, k) for k, v in d.items()), for a dict whose values differ.
Inverse(d) == [v \in Range(d) |-> CHOOSE k \in DOMAIN d : d[k] = v]

\* build_atom_cache(atoms), with a connection.
BuildAtomCache(atoms) ==
    /\ atomCalls < MaxAtomCalls
    /\ atomCalls' = atomCalls + 1
    /\ LET r == BuildLoop(atoms, atom_cache, serverAtoms, interns)
       IN  /\ atom_cache' = r[1]
           /\ serverAtoms' = r[2]
           /\ interns' = r[3]
           /\ atom_nm_cache' = Inverse(r[1])
    /\ atomRet' = AtomReturned("build_atom_cache", "", 0)
    /\ UNCHANGED nameReqs
    /\ UNCHANGED <<eventVars, fatalVars, callVars, keyVars>>

AtomInit ==
    /\ atom_cache = <<>>
    /\ atom_nm_cache = <<>>
    /\ serverAtoms = PredefinedAtoms
    /\ interns = [n \in AtomNames |-> 0]
    /\ nameReqs = [a \in AtomIds |-> 0]
    /\ atomCalls = 0
    /\ atomRet = AtomReturned("none", "", 0)

\* ------------------------------------------------------------ keybind
\* Number of calls of bind_key, grab_key and ungrab_key by user code in one
\* behaviour.
MaxKeyCalls == 3

\* conn.get_setup().min_keycode and max_keycode
MinKeycode == 8
MaxKeycode == 10

\* get_keycode found no keycode (None, which bind_key tests with 'not kc').
NoKeycode == 0

\* A modifier mask is the set of the names of its bits; | is union and
\* & ~ is set difference.
ModLock == "Lock"
Mod2 == "Mod2"

\* TRIVIAL_MODS: 0, Lock, Mod2 and Lock | Mod2, in this order.
TRIVIAL_MODS == <<{}, {ModLock}, {Mod2}, {ModLock, Mod2}>>

\* The names of xproto.KeyButMask that occur in the key strings examined.
KeyButMask == {"Shift", "Lock", "Control", "Mod1", "Mod2"}

\* keysymdef.keysyms: key name -> keysym.
keysyms == [n \in {"a", "b", "c"} |-> CASE n = "a" -> 97
                                         [] n = "b" -> 98
                                         [] n = "c" -> 99]

\* str.capitalize() of the key names of more than one character examined.
Capitalized == [n \in {"zz"} |-> "Zz"]

\* A keyboard mapping (GetKeyboardMappingReply): keysyms_per_keycode and the
\* keysyms of the keycodes MinKeycode..MaxKeycode, row after row.
KeyboardMapping(per, syms) == [keysyms_per_keycode |-> per, keysyms |-> syms]

\* The keyboard mappings the server has in the behaviours examined: the
\* keys a, b, c on three keycodes, the same with a and b exchanged, and one
\* with the keysym a on two keycodes.
KeyboardMappings ==
    {KeyboardMapping(1, <<97, 98, 99>>), KeyboardMapping(1, <<98, 97, 99>>),
     KeyboardMapping(1, <<97, 97, 98>>)}

\* get_keysym(keycode, col, kbmap): the index is computed with the
\* keysyms_per_keycode of the mapping passed in and the keysym is read from
\* __kbmap, the module's mapping (kb), whatever mapping was passed in.
get_keysym(kb, keycode, col, map) ==
    kb.keysyms[(keycode - MinKeycode) * map.keysyms_per_keycode + col + 1]

\* get_keycode(keysym): the first keycode with the keysym in a column.
get_keycode(kb, keysym) ==
    LET hits == {i \in MinKeycode..MaxKeycode :
                    \E j \in 0..(kb.keysyms_per_keycode - 1) :
                        get_keysym(kb, i, j, kb) = keysym}
    IN  IF hits = {} THEN NoKeycode
        ELSE CHOOSE i \in hits : \A k \in hits : i <= k

\* lookup_string(kstr)
lookup_string(kb, kstr) ==
    IF kstr \in DOMAIN keysyms THEN get_keycode(kb, keysyms[kstr])
    ELSE IF kstr \in DOMAIN Capitalized
            /\ Capitalized[kstr] \in DOMAIN keysyms
    THEN get_keycode(kb, keysyms[Capitalized[kstr]])
    ELSE NoKeycode

\* parse_keystring(key_string), for the parts key_string.split('-') yields
\* (lower-case key names): a part that names a bit of KeyButMask is or-ed
\* into the modifiers, any other part is looked up and sets the keycode.
RECURSIVE ParseParts(_, _, _, _)
ParseParts(kb, parts, modifiers, keycode) ==
    IF parts = <<>> THEN [modifiers |-> modifiers, keycode |-> keycode]
    ELSE IF Head(parts) \in KeyButMask
    THEN ParseParts(kb, Tail(parts), modifiers \cup {Head(parts)}, keycode)
    ELSE ParseParts(kb, Tail(parts), modifiers,
                    lookup_string(kb, Head(parts)))

parse_keystring(kb, key_string) == ParseParts(kb, key_string, {}, NoKeycode)

\* A passive grab on the server: GrabKey (kind "key") or GrabButton (kind
\* "button") of one window, modifier mask and key or button.
Grab(kind, wid, modifiers, detail) ==
    [kind |-> kind, wid |-> wid, modifiers |-> modifiers, detail |-> detail]

\* The grabs grab_key and grab_button ask for.
Variants(kind, wid, modifiers, detail) ==
    {Grab(kind, wid, modifiers \cup TRIVIAL_MODS[i], detail) :
        i \in 1..Len(TRIVIAL_MODS)}

\* Mutant of GrabRefused: BadAccess is not caught.
GrabRefusedRaises(held) == [ok |-> FALSE, raised |-> TRUE, grabs |-> held]

\* grab_key and grab_button when a Grab...Checked(...).check() raises
\* BadAccess: the except clause returns False; the grabs made before stay.
GrabRefused(held) == [ok |-> FALSE, raised |-> FALSE, grabs |-> held]

\* The for loop of grab_key and grab_button from the i-th trivial modifier
\* on: the server refuses a grab another client holds (BadAccess) and
\* records the others.
RECURSIVE GrabLoop(_, _, _, _, _, _, _)
GrabLoop(i, held, others, kind, wid, modifiers, detail) ==
    IF i > Len(TRIVIAL_MODS)
    THEN [ok |-> TRUE, raised |-> FALSE, grabs |-> held]
    ELSE LET g == Grab(kind, wid, modifiers \cup TRIVIAL_MODS[i], detail)
         IN  IF g \in others THEN GrabRefused(held)
             ELSE GrabLoop(i + 1, held \cup {g}, others, kind, wid,
                           modifiers, detail)

\* grab_key(wid, modifiers, key): its value and the grabs held afterwards.
grab_key(held, others, wid, modifiers, key) ==
    GrabLoop(1, held, others, "key", wid, modifiers, key)

\* grab_button(wid, modifiers, button, propagate), the same loop with
\* GrabButtonChecked.
grab_button(held, others, wid, modifiers, button) ==
    GrabLoop(1, held, others, "button", wid, modifiers, button)

\* ungrab_key(wid, modifiers, key): UngrabKey releases what this client
\* holds and never answers BadAccess; the value is True.
ungrab_key(held, wid, modifiers, key) ==
    [ok |-> TRUE, raised |-> FALSE,
     grabs |-> held \ Variants("key", wid, modifiers, key)]

\* d[key] of a defaultdict(int) or defaultdict(list), without the insertion.
GrabCount(d, key) == IF key \in DOMAIN d THEN d[key] ELSE 0
BoundTo(d, key) == IF key \in DOMAIN d THEN d[key] ELSE <<>>

\* The callback bind_key connects to the registry of event.py.
KeybindDispatcher == "__run_keybind_callbacks"

\* The record of a call of the keybind API.
KeyReturned(op, key, ok, raised) ==
    [op |-> op, key |-> key, ok |-> ok, raised |-> raised]

\* A bind_key(event_type, wid, key_string, cb) that returned True, with the
\* key (wid, mods, kc) its key string parsed to; n tells the calls apart.
Binding(n, event_type, key, key_string, cb) ==
    [call |-> n, event_type |-> event_type, key |-> key,
     key_string |-> key_string, cb |-> cb]

\* Mutant of CountRead: the count is raised before the grab is tried.
CountReadRaised(counts, key) ==
    Updated(counts, key, GrabCount(counts, key) + 1)

\* __keygrabs[key] read in bind_key's test: the defaultdict inserts a key it
\* does not have with the count 0 and changes no count.
CountRead(counts, key) == Updated(counts, key, GrabCount(counts, key))

\* Mutant of BindNeedsGrab: every bind_key grabs the key.
BindAlwaysGrabs(counts, key) == TRUE

\* bind_key: 'not __keygrabs[key]', the condition under which it calls
\* grab_key.
BindNeedsGrab(counts, key) == GrabCount(counts, key) = 0

\* bind_key(event_type, wid, key_string, cb), called by the program before
\* it calls main().
BindKey(event_type, wid, key_string, cb) ==
    /\ pc = "idle"
    /\ keyCalls < MaxKeyCalls
    /\ keyCalls' = keyCalls + 1
    /\ LET parsed == parse_keystring(kbmap, key_string)
           mods == parsed.modifiers
           kc == parsed.keycode
           key == <<wid, mods, kc>>
           needs == BindNeedsGrab(keygrabs, key)
           g == grab_key(grabs, foreign, wid, mods, kc)
       IN  IF event_type \notin {"KeyPress", "KeyRelease"}
           THEN /\ keyRet' = KeyReturned("bind_key", key, FALSE, TRUE)
                /\ UNCHANGED <<keybinds, keygrabs, grabs, grabCalls,
                               callbacks, bound>>
           ELSE IF kc = NoKeycode
           THEN /\ keyRet' = KeyReturned("bind_key", key, FALSE, FALSE)
                /\ UNCHANGED <<keybinds, keygrabs, grabs, grabCalls,
                               callbacks, bound>>
           ELSE IF needs /\ ~g.ok
           THEN /\ keygrabs' = CountRead(keygrabs, key)
                /\ grabs' = g.grabs
                /\ grabCalls' = grabCalls + 1
                /\ keyRet' = KeyReturned("bind_key", key, FALSE, g.raised)
                /\ UNCHANGED <<keybinds, callbacks, bound>>
           ELSE /\ grabs' = IF needs THEN g.grabs ELSE grabs
                /\ grabCalls' = IF needs THEN grabCalls + 1 ELSE grabCalls
                /\ keybinds' = Updated(keybinds, key,
                                       Append(BoundTo(keybinds, key), cb))
                /\ keygrabs' = Updated(keygrabs, key,
                                       GrabCount(keygrabs, key) + 1)
                /\ callbacks' =
                      IF IsConnectedValue(Key(event_type, wid),
                                          KeybindDispatcher)
                      THEN callbacks
                      ELSE Updated(callbacks, Key(event_type, wid),
                                   ConnectedList(Key(event_type, wid),
                                                 KeybindDispatcher))
                /\ bound' = bound \cup {Binding(keyCalls + 1, event_type, key,
                                                     key_string, cb)}
                /\ keyRet' = KeyReturned("bind_key", key, TRUE, FALSE)
    /\ UNCHANGED <<kbmap, serverMap, foreign, fired, ungrabCalls>>
    /\ UNCHANGED <<pending, arrived, queue, pc, mainVars, touched, yielded,
                   dispatched, invoked, ret>>
    /\ UNCHANGED <<fatalVars, callVars, atomVars>>

\* grab_key(wid, modifiers, key), called by the program.
GrabKey(wid, modifiers, key) ==
    /\ pc = "idle"
    /\ keyCalls < MaxKeyCalls
    /\ keyCalls' = keyCalls + 1
    /\ LET g == grab_key(grabs, foreign, wid, modifiers, key)
       IN  /\ grabs' = g.grabs
           /\ keyRet' = KeyReturned("grab_key", <<wid, modifiers, key>>,
                                    g.ok, g.raised)
    /\ grabCalls' = grabCalls + 1
    /\ UNCHANGED <<kbmap, serverMap, keybinds, keygrabs, foreign, fired,
                   bound, ungrabCalls>>
    /\ UNCHANGED <<eventVars, fatalVars, callVars, atomVars>>

\* grab_button(wid, modifiers, button), called by the program.
GrabButton(wid, modifiers, button) ==
    /\ pc = "idle"
    /\ keyCalls < MaxKeyCalls
    /\ keyCalls' = keyCalls + 1
    /\ LET g == grab_button(grabs, foreign, wid, modifiers, button)
       IN  /\ grabs' = g.grabs
           /\ keyRet' = KeyReturned("grab_button", <<wid, modifiers, button>>,
                                    g.ok, g.raised)
    /\ grabCalls' = grabCalls + 1
    /\ UNCHANGED <<kbmap, serverMap, keybinds, keygrabs, foreign, fired,
                   bound, ungrabCalls>>
    /\ UNCHANGED <<eventVars, fatalVars, callVars, atomVars>>

\* ungrab_key(wid, modifiers, key), called by the program.
UngrabKey(wid, modifiers, key) ==
    /\ pc = "idle"
    /\ keyCalls < MaxKeyCalls
    /\ keyCalls' = keyCalls + 1
    /\ LET g == ungrab_key(grabs, wid, modifiers, key)
       IN  /\ grabs' = g.grabs
           /\ keyRet' = KeyReturned("ungrab_key", <<wid, modifiers, key>>,
                                    g.ok, g.raised)
    /\ ungrabCalls' = ungrabCalls + 1
    /\ UNCHANGED <<kbmap, serverMap, keybinds, keygrabs, foreign, fired,
                   bound, grabCalls>>
    /\ UNCHANGED <<eventVars, fatalVars, callVars, atomVars>>

\* Another client grabs a key combination nobody holds.
OtherClientGrabs(g) ==
    /\ g \notin grabs
    /\ g \notin foreign
    /\ foreign' = foreign \cup {g}
    /\ UNCHANGED <<kbmap, serverMap, keybinds, keygrabs, grabs, fired,
                   bound, grabCalls, ungrabCalls, keyCalls, keyRet>>
    /\ UNCHANGED <<eventVars, fatalVars, callVars, atomVars>>

\* A KeyPress or KeyRelease event: e.event is the window it is reported
\* to, e.state the modifier mask and e.detail the keycode.
KeyShape(cls, wid, state, detail) ==
    [cls |-> cls, window |-> Absent, event |-> wid, owner |-> Absent,
     requestor |-> Absent, state |-> state, detail |-> detail]

MkKeyEvent(i, s) ==
    [id |-> i, cls |-> s.cls, window |-> s.window, event |-> s.event,
     owner |-> s.owner, requestor |-> s.requestor, state |-> s.state,
     detail |-> s.detail]

\* The X server sends a key event.
KeyArrive(s, max) ==
    /\ arrived < max
    /\ arrived' = arrived + 1
    /\ pending' = Append(pending, MkKeyEvent(arrived + 1, s))
    /\ UNCHANGED <<queue, callbacks, pc, mainVars, touched, yielded,
                   dispatched, invoked, ret>>
    /\ UNCHANGED extVars

\* for mod in TRIVIAL_MODS: mods &= ~mod, from the i-th entry on.
RECURSIVE MaskTrivial(_, _)
MaskTrivial(i, mods) ==
    IF i > Len(TRIVIAL_MODS) THEN mods
    ELSE MaskTrivial(i + 1, mods \ TRIVIAL_MODS[i])

\* Mutant of KeybindKey: the state is compared as it is.
KeybindKeyUnmasked(e) == <<e.event, e.state, e.detail>>

\* key = (e.event, mods, kc)
KeybindKey(e) == <<e.event, MaskTrivial(1, e.state), e.detail>>

\* __run_keybind_callbacks(e), called by main(): every cb() of the key's
\* list runs and returns, then the dispatcher returns.
RunKeybindCallbacks ==
    /\ pc = "in_callback"
    /\ curList[idx] = KeybindDispatcher
    /\ fired' = fired \o [i \in 1..Len(BoundTo(keybinds, KeybindKey(cur))) |->
                             <<cur.id, BoundTo(keybinds, KeybindKey(cur))[i]>>]
    /\ pc' = "main_dispatch"
    /\ idx' = idx + 1
    /\ UNCHANGED <<pending, arrived, queue, callbacks, cur, curKey, curList,
                   curAttached, curStart, touched, yielded, dispatched,
                   invoked, ret>>
    /\ UNCHANGED <<kbmap, serverMap, keybinds, keygrabs, grabs, foreign,
                   bound, grabCalls, ungrabCalls, keyCalls, keyRet>>
    /\ UNCHANGED <<fatalVars, callVars, atomVars>>

\* The callback keybind.py connects for MappingNotify when it is imported.
MappingHandler == "update_keyboard_mapping"

\* A MappingNotify event: e.request is Keyboard, Modifier or Pointer.
MappingRequests == {"Keyboard", "Modifier", "Pointer"}

MkMappingEvent(i, request) ==
    [id |-> i, cls |-> "MappingNotifyEvent", window |-> Absent,
     event |-> Absent, owner |-> Absent, requestor |-> Absent,
     request |-> request]

\* The server's keyboard mapping is changed to m (another client's
\* ChangeKeyboardMapping); every client is sent MappingNotify(Keyboard).
Remap(m, max) ==
    /\ arrived < max
    /\ m # serverMap
    /\ serverMap' = m
    /\ arrived' = arrived + 1
    /\ pending' = Append(pending, MkMappingEvent(arrived + 1, "Keyboard"))
    /\ UNCHANGED <<queue, callbacks, pc, mainVars, touched, yielded,
                   dispatched, invoked, ret>>
    /\ UNCHANGED <<kbmap, keybinds, keygrabs, grabs, foreign, fired, bound,
                   grabCalls, ungrabCalls, keyCalls, keyRet>>
    /\ UNCHANGED <<fatalVars, callVars, atomVars>>

\* The server sends a MappingNotify for a change of the modifier or the
\* pointer mapping.
MappingArrive(request, max) ==
    /\ arrived < max
    /\ arrived' = arrived + 1
    /\ pending' = Append(pending, MkMappingEvent(arrived + 1, request))
    /\ UNCHANGED <<queue, callbacks, pc, mainVars, touched, yielded,
                   dispatched, invoked, ret>>
    /\ UNCHANGED extVars

\* The loop of update_keyboard_mapping from the keycode kc on,
\* 'for kc in xrange(*get_min_max_keycode())': the keycodes from the
\* minimum up to, not including, the maximum.  knew is read through
\* get_keysym with the new mapping passed in, oldkc is the keycode the
\* module's mapping, still the old one, has for knew.
RECURSIVE ChangesLoop(_, _, _, _)
ChangesLoop(kc, changes, old, newmap) ==
    IF kc >= MaxKeycode THEN changes
    ELSE LET knew == get_keysym(old, kc, 0, newmap)
             oldkc == get_keycode(old, knew)
         IN  ChangesLoop(kc + 1,
                         IF oldkc # kc THEN Updated(changes, oldkc, kc)
                         ELSE changes,
                         old, newmap)

\* f without the key k: del f[k].
Deleted(f, k) == [x \in DOMAIN f \ {k} |-> f[x]]

\* The orders in which a for loop over a dict can yield the keys ks.
Orders(ks) ==
    {o \in [1..Cardinality(ks) -> ks] :
        \A i, j \in 1..Cardinality(ks) : o[i] = o[j] => i = j}

\* Mutant of RegrabbedGrabs: the old keycode stays grabbed.
RegrabbedGrabsKeepOld(held, others, key, newkc) ==
    grab_key(held, others, key[1], key[2], newkc).grabs

\* __regrab for one key: ungrab_key(wid, mods, kc), then
\* grab_key(wid, mods, changes[kc]), whose value is not looked at.
RegrabbedGrabs(held, others, key, newkc) ==
    grab_key(ungrab_key(held, key[1], key[2], key[3]).grabs, others,
             key[1], key[2], newkc).grabs

\* The for loop of __regrab over the keys of __keybinds that have a changed
\* keycode, in the order the dict yields them.  The loop changes the dict
\* it iterates: when the new key is one the dict has, the assignment
\* replaces that key's list, 'del' makes the dict smaller and the
\* iterator's next step raises RuntimeError (dictionary changed size
\* during iteration).  __keygrabs is not touched.
RECURSIVE RegrabLoop(_, _, _, _, _, _)
RegrabLoop(order, i, changes, binds, held, others) ==
    IF i > Len(order)
    THEN [keybinds |-> binds, grabs |-> held, raised |-> FALSE, moved |-> i - 1]
    ELSE LET old == order[i]
             new == <<old[1], old[2], changes[old[3]]>>
             g == RegrabbedGrabs(held, others, old, changes[old[3]])
             b == Deleted(Updated(binds, new, binds[old]), old)
         IN  IF new \in DOMAIN binds
             THEN [keybinds |-> b, grabs |-> g, raised |-> TRUE, moved |-> i]
             ELSE RegrabLoop(order, i + 1, changes, b, g, others)

\* update_keyboard_mapping(e), called by main() for a MappingNotify: for
\* e.request = Mapping.Keyboard the new mapping is fetched, the changes are
\* computed, __kbmap is replaced and __regrab(changes) runs; a
\* RuntimeError of __regrab leaves main().  For Mapping.Modifier only
\* __keysmods is recomputed, which no binding depends on.
UpdateKeyboardMapping ==
    /\ pc = "in_callback"
    /\ curList[idx] = MappingHandler
    /\ IF cur.request = "Keyboard"
       THEN LET newmap == serverMap
                changes == ChangesLoop(MinKeycode, <<>>, kbmap, newmap)
                moving == {k \in DOMAIN keybinds : k[3] \in DOMAIN changes}
            IN  \E order \in Orders(moving) :
                  LET r == RegrabLoop(order, 1, changes, keybinds, grabs,
                                      foreign)
                  IN  /\ kbmap' = newmap
                      /\ keybinds' = r.keybinds
                      /\ grabs' = r.grabs
                      /\ grabCalls' = grabCalls + r.moved
                      /\ ungrabCalls' = ungrabCalls + r.moved
                      /\ IF r.raised
                         THEN /\ pc' = MainAfterRaise("RuntimeError")
                              /\ exc' = "RuntimeError"
                              /\ UNCHANGED idx
                         ELSE /\ pc' = "main_dispatch"
                              /\ idx' = idx + 1
                              /\ UNCHANGED exc
       ELSE /\ pc' = "main_dispatch"
            /\ idx' = idx + 1
            /\ UNCHANGED <<kbmap, keybinds, grabs, grabCalls, ungrabCalls,
                           exc>>
    /\ UNCHANGED <<pending, arrived, queue, callbacks, cur, curKey, curList,
                   curAttached, curStart, touched, yielded, dispatched,
                   invoked, ret>>
    /\ UNCHANGED <<serverMap, keygrabs, foreign, fired, bound, keyCalls,
                   keyRet>>
    /\ UNCHANGED <<callVars, atomVars>>

\* The registry after 'import keybind':
\* event.connect('MappingNotify', None, update_keyboard_mapping).
KeybindImported == [k \in {Key("MappingNotify", None)} |-> <<MappingHandler>>]

\* keybind.py imported: update_keyboard_mapping(None) has fetched the
\* server's mapping, nothing is bound or grabbed.
KeyInitWith(map) ==
    /\ kbmap = map
    /\ serverMap = map
    /\ keybinds = <<>>
    /\ keygrabs = <<>>
    /\ grabs = {}
    /\ foreign = {}
    /\ fired = <<>>
    /\ bound = {}
    /\ grabCalls = 0
    /\ ungrabCalls = 0
    /\ keyCalls = 0
    /\ keyRet = KeyReturned("none", <<None, {}, NoKeycode>>, FALSE, FALSE)

KeyInit == KeyInitWith(KeyboardMapping(1, <<97, 98, 99>>))

------------------------------------------------------------------------------
EventInitWith(registry) ==
    /\ pending = <<>>
    /\ arrived = 0
    /\ queue = <<>>
    /\ callbacks = registry
    /\ pc = "idle"
    /\ cur = NoEvent
    /\ curKey = <<"", None>>
    /\ curList = <<>>
    /\ curAttached = FALSE
    /\ curStart = <<>>
    /\ idx = 1
    /\ touched = FALSE
    /\ yielded = <<>>
    /\ dispatched = <<>>
    /\ invoked = <<>>
    /\ ret = Returned("none")
    /\ exc = None

EventInit == EventInitWith(<<>>)

CallInit == call = NoCall /\ result = NoResult

Init == EventInit /\ CallInit /\ AtomInit /\ KeyInit

\* The state after 'import keybind'.
InitKeybind == EventInitWith(KeybindImported) /\ CallInit /\ AtomInit /\ KeyInit

\* The steps of main().
MainStep ==
    \/ MainStart
    \/ MainRead
    \/ MainNextEvent
    \/ MainInvoke
    \/ CallbackReturn

\* The queue and the dispatch loop: events are read and drained by user code
\* and by main(), in any interleaving.
Next ==
    \/ \E s \in QueueShapes : Arrive(s, MaxEvents)
    \/ \E b \in BOOLEAN : Read(b)
    \/ QueueNext
    \/ Peek
    \/ \E r \in QueueRegs, cb \in Callbacks : Connect(r[1], r[2], cb)
    \/ \E r \in QueueRegs : Disconnect(r[1], r[2])
    \/ MainStep

Spec == Init /\ [][Next]_vars

\* The registry and the routing of main(): the program connects,
\* disconnects and asks about callbacks under every key and then runs
\* main() on events of every shape.
NextRoute ==
    \/ \E s \in RouteShapes : Arrive(s, MaxRouteEvents)
    \/ \E r \in RouteRegs, cb \in Callbacks :
          pc = "idle" /\ Connect(r[1], r[2], cb)
    \/ \E r \in RouteRegs : pc = "idle" /\ Disconnect(r[1], r[2])
    \/ \E r \in RouteRegs, cb \in Callbacks :
          pc = "idle" /\ IsConnected(r[1], r[2], cb)
    \/ MainStep

SpecRoute == Init /\ [][NextRoute]_vars

\* Callbacks that change the registry while main() is dispatching an event.
NextReentrant ==
    \/ \E s \in ReentrantShapes : Arrive(s, MaxRouteEvents)
    \/ \E r \in ReentrantRegs, cb \in Callbacks : Connect(r[1], r[2], cb)
    \/ \E r \in ReentrantRegs : Disconnect(r[1], r[2])
    \/ \E r \in ReentrantRegs, cb \in Callbacks : IsConnected(r[1], r[2], cb)
    \/ MainStep

SpecReentrant == Init /\ [][NextReentrant]_vars

\* The events and registrations of SpecFatal.
FatalShapes ==
    {Shape("MapNotifyEvent", root, "w1", Absent, Absent),
     Shape("KeyPressEvent", Absent, root, Absent, Absent)}

FatalRegs == {<<"MapNotify", root>>, <<"KeyPress", root>>}

\* Callbacks that raise: the program connects callbacks and runs main(), and
\* a callback either returns or raises.
NextFatal ==
    \/ \E s \in FatalShapes : Arrive(s, MaxEvents)
    \/ \E r \in FatalRegs, cb \in Callbacks :
          pc = "idle" /\ Connect(r[1], r[2], cb)
    \/ MainStep
    \/ \E kind \in Exceptions : CallbackRaise(kind)

SpecFatal == Init /\ [][NextFatal]_vars

\* pack_client_message on every call of PackCalls.
InitPack ==
    /\ EventInit /\ AtomInit /\ KeyInit
    /\ call \in PackCalls /\ result = NoResult

NextPack == Pack

SpecPack == InitPack /\ [][NextPack]_vars

\* get_property_value on every reply of TextCalls.
InitText ==
    /\ EventInit /\ AtomInit /\ KeyInit
    /\ call \in TextCalls /\ result = NoResult

NextText == GetValue

SpecText == InitText /\ [][NextText]_vars

\* Every structured property written and read back.
InitCodec ==
    /\ EventInit /\ AtomInit /\ KeyInit
    /\ call \in CodecCalls /\ result = NoResult

NextCodec == SetGet

SpecCodec == InitCodec /\ [][NextCodec]_vars

\* ------------------------------------------------ replies to getters
\* Number of 32-bit elements in the replies examined.
MaxReplyWords == 4

\* The getters: get_property_value itself ("generic"), a
\* PropertyCookieSingle ("single") and the structured cookies.
Getters == {"generic", "single"} \cup CodecKinds

\* What a getter returns, as a record of one shape: the kind of result and
\* the result labelled with its kind.
Reply(tag, v) == [tag |-> tag, value |-> OfKind(tag, v)]

\* PropertyCookieSingle.reply(): the head of a list of one element,
\* otherwise what get_property_value returned.
SingleReply(pv) ==
    IF pv.tag = "ints" /\ Len(pv.ints) = 1 THEN Reply("int", pv.ints[1])
    ELSE IF pv.tag = "strs" /\ Len(pv.strs) = 1 THEN Reply("str", pv.strs)
    ELSE Reply(pv.tag, pv)

\* reply() of a getter's cookie for the GetProperty reply of the server.
GetterReply(getter, python, order, reply) ==
    LET pv == GetPropertyValue(python, order, reply)
    IN  IF getter = "generic" THEN Reply(pv.tag, pv)
        ELSE IF getter = "single" THEN SingleReply(pv)
        ELSE LET r == CookieReply(getter, python, pv)
             IN  Reply(IF r.tag = "value" THEN getter ELSE r.tag, r.value)

\* The replies examined: no property, a property of format 32 with no
\* element and with elements and, for the getters of text properties, a
\* property of format 8 with no element.
Replies(getter, order) ==
         {UnsetReply}
    \cup {PropertyReply(32, Len(ws), PackWordsOf(order, ws)) :
             ws \in SeqUpTo({0, 1}, MaxReplyWords)}
    \cup (IF getter \in CodecKinds THEN {}
          ELSE {PropertyReply(8, 0, <<>>)})

ReplyCalls ==
    UNION {{[op |-> "reply", getter |-> g, python |-> py, byteorder |-> o,
             reply |-> r] : py \in Pythons, r \in Replies(g, o)} :
           g \in Getters, o \in ByteOrders}

\* The call under examination is made.
GetReply ==
    /\ call.op = "reply"
    /\ result = NoResult
    /\ LET r == GetterReply(call.getter, call.python, call.byteorder,
                            call.reply)
       IN  result' = [op |-> "reply", tag |-> r.tag, value |-> r.value]
    /\ UNCHANGED <<eventVars, fatalVars, call, atomVars, keyVars>>

InitReply ==
    /\ EventInit /\ AtomInit /\ KeyInit
    /\ call \in ReplyCalls /\ result = NoResult

NextReply == GetReply

SpecReply == InitReply /\ [][NextReply]_vars

\* The reply is for a property that is set and has no element.
SetEmpty(reply) == reply.format # 0 /\ reply.value_len = 0

\* C23: what a getter returns for a property that is set and has no element
\* differs from what it returns for a property that is not set, for
\* get_property_value, PropertyCookieSingle and the structured cookies.
EmptyIsNotUnset ==
    (result.op = "reply" /\ SetEmpty(call.reply)) =>
        [tag |-> result.tag, value |-> result.value]
            # GetterReply(call.getter, call.python, call.byteorder, UnsetReply)

\* The number n of elements is one the structured cookie of the kind takes.
ArityMatches(kind, n) ==
    CASE kind = "strut" -> n = 4
      [] kind = "strut_partial" -> n = 12
      [] kind = "desktop_geometry" -> n = 2
      [] kind = "desktop_viewport" -> n % 2 = 0
      [] kind = "workarea" -> n % 4 = 0
      [] kind = "icon" -> n # 1

\* C24: a structured cookie whose reply has a number of elements that does
\* not match the structure ignores the reply (returns None); it does not
\* raise an exception for an index out of range.
WrongArityIsIgnored ==
    (/\ result.op = "reply"
     /\ call.getter \in CodecKinds
     /\ call.reply.format = 32
     /\ ~ArityMatches(call.getter, call.reply.value_len))
        => result.tag = "none"

\* ------------------------------------------- _NET_MOVERESIZE_WINDOW
\* An optional argument: <<>> when it is omitted (None), <<n>> for n.
Omitted == <<>>
Given(n) == <<n>>

\* The coordinates, gravities (Gravity.BitForget is 0) and source
\* indications of the calls examined.
Coordinates == {Omitted, Given(0), Given(5)}
Gravities == {0, 1}
SourceIndications == {1, 2}

\* flags = gravity; flags |= source << 12; flags |= 1 << 8 .. 1 << 11 for
\* x, y, width and height that are not None.  The gravity is below 1 << 8,
\* so the bits are disjoint and | adds them.
MoveresizeFlags(gravity, source, x, y, width, height) ==
    gravity + source * (2 ^ 12)
    + (IF x # Omitted THEN 2 ^ 8 ELSE 0)
    + (IF y # Omitted THEN 2 ^ 9 ELSE 0)
    + (IF width # Omitted THEN 2 ^ 10 ELSE 0)
    + (IF height # Omitted THEN 2 ^ 11 ELSE 0)

\* 'a or 0'
OrZero(a) == IF a = Omitted THEN 0 ELSE a[1]

\* A client message that could not be built: struct.pack raises
\* struct.error for an argument that is not an integer.
StructError == [op |-> "pack_client_message", raised |-> TRUE, bytes |-> <<>>]

\* request_moveresize_window: the message revent packs and sends.
RequestMoveresizeWindow(order, window, atom, x, y, width, height, gravity, source) ==
    PackClientMessage(order, window, atom,
                      <<MoveresizeFlags(gravity, source, x, y, width, height),
                        OrZero(x), OrZero(y), OrZero(width), OrZero(height)>>)

\* request_moveresize_window_checked: x, y, width and height are passed to
\* revent_checked as they are, None included.
RequestMoveresizeWindowChecked(order, window, atom, x, y, width, height, gravity, source) ==
    IF Omitted \in {x, y, width, height} THEN StructError
    ELSE PackClientMessage(order, window, atom,
                           <<MoveresizeFlags(gravity, source, x, y, width,
                                             height),
                             x[1], y[1], width[1], height[1]>>)

MoveresizeCalls ==
    [op : {"request_moveresize_window"}, byteorder : ByteOrders,
     window : {5}, atom : {258}, x : Coordinates, y : Coordinates,
     width : Coordinates, height : Coordinates, gravity : Gravities,
     source : SourceIndications]

\* Both functions are called with the arguments under examination.
Moveresize ==
    /\ call.op = "request_moveresize_window"
    /\ result = NoResult
    /\ result' =
          [op |-> "request_moveresize_window",
           unchecked |->
               RequestMoveresizeWindow(call.byteorder, call.window, call.atom,
                                       call.x, call.y, call.width,
                                       call.height, call.gravity, call.source),
           checked |->
               RequestMoveresizeWindowChecked(call.byteorder, call.window,
                                              call.atom, call.x, call.y,
                                              call.width, call.height,
                                              call.gravity, call.source)]
    /\ UNCHANGED <<eventVars, fatalVars, call, atomVars, keyVars>>

InitMoveresize ==
    /\ EventInit /\ AtomInit /\ KeyInit
    /\ call \in MoveresizeCalls /\ result = NoResult

NextMoveresize == Moveresize

SpecMoveresize == InitMoveresize /\ [][NextMoveresize]_vars

\* C30: for the same arguments the two functions build the same client
\* message; it is built (nothing is raised) and an omitted coordinate is in
\* it as 0.
CheckedBuildsSameMessage ==
    result.op = "request_moveresize_window" =>
        /\ result.checked = result.unchecked
        /\ ~result.unchecked.raised

\* The key strings, split at '-', and the grabs of SpecGrab.
GrabKeyStrings == {<<"a">>, <<"Mod1", "a">>, <<"zz">>}

GrabbedKeys == {<<root, {}, 8>>, <<root, {"Mod1"}, 8>>}

GrabbedButtons == {<<root, {}, 1>>}

OtherGrabs ==
    {Grab("key", root, {}, 8), Grab("key", root, {Mod2}, 8),
     Grab("button", root, {ModLock}, 1)}

\* Binding and grabbing keys while other clients hold grabs.
NextGrab ==
    \/ \E t \in {"KeyPress"}, ks \in GrabKeyStrings, cb \in Callbacks :
          BindKey(t, root, ks, cb)
    \/ \E k \in GrabbedKeys : GrabKey(k[1], k[2], k[3])
    \/ \E k \in GrabbedButtons : GrabButton(k[1], k[2], k[3])
    \/ \E k \in GrabbedKeys : UngrabKey(k[1], k[2], k[3])
    \/ \E g \in OtherGrabs : OtherClientGrabs(g)

SpecGrab == InitKeybind /\ [][NextGrab]_vars

\* Number of key events the server sends in one behaviour.
MaxKeyEvents == 1

\* The bind_key calls of SpecKeybind: <<event type, window, key string>>.
KeybindBinds ==
    {<<"KeyPress", root, <<"a">>>>, <<"KeyPress", root, <<"Mod1", "a">>>>,
     <<"KeyRelease", root, <<"a">>>>}

\* The key events of SpecKeybind: the key a (keycode 8) on the root window
\* with and without lock modifiers and Mod1, with another modifier, on
\* another window, another key, and a release.
KeybindShapes ==
    {KeyShape("KeyPressEvent", root, {}, 8),
     KeyShape("KeyPressEvent", root, {ModLock, Mod2}, 8),
     KeyShape("KeyPressEvent", root, {"Mod1", ModLock}, 8),
     KeyShape("KeyPressEvent", root, {"Shift"}, 8),
     KeyShape("KeyPressEvent", "w1", {}, 8),
     KeyShape("KeyPressEvent", root, {}, 9),
     KeyShape("KeyReleaseEvent", root, {Mod2}, 8),
     KeyShape("KeyReleaseEvent", root, {"Mod1"}, 8)}

\* The program binds keys, calls main(), and key events arrive while main()
\* waits for events.
NextKeybind ==
    \/ \E b \in KeybindBinds, cb \in Callbacks :
          BindKey(b[1], b[2], b[3], cb)
    \/ MainStart
    \/ MainRead
    \/ MainNextEvent
    \/ MainInvoke
    \/ RunKeybindCallbacks
    \/ \E s \in KeybindShapes : pc = "main_read" /\ KeyArrive(s, MaxKeyEvents)

SpecKeybind == InitKeybind /\ [][NextKeybind]_vars

\* The key events main() has finished dispatching.
Handled ==
    {yielded[i] : i \in {j \in 1..Len(yielded) :
                            yielded[j].id # cur.id
                            \/ pc \in {"main_drain", "main_read"}}}

\* The binding b is one for the event e: same event type, window and
\* keycode, and modifiers equal to the event's state without the trivial
\* modifiers Lock and Mod2.
Matches(b, e) ==
    /\ b.key[1] = e.event
    /\ b.key[3] = e.detail
    /\ b.key[2] = e.state \ {ModLock, Mod2}

\* The callback cb has been called for the event e.
Fired(e, cb) == \E i \in 1..Len(fired) : fired[i] = <<e.id, cb>>

\* C18: once main() has dispatched a key event, the callback of every
\* successful bind_key of the event's type whose window and keycode are the
\* event's has been called if the event's state without Lock and Mod2
\* equals the binding's modifiers, whatever the lock bits of the state; and
\* a callback has been called only through a binding with the event's
\* window, keycode and masked state.
BindingFiresOnMaskedMatch ==
    \A e \in Handled :
        /\ \A b \in bound :
              (Member(b.event_type) = e.cls /\ Matches(b, e)) => Fired(e, b.cb)
        /\ \A cb \in Callbacks :
              Fired(e, cb) => \E b \in bound : b.cb = cb /\ Matches(b, e)

\* C25: the keybind dispatcher is at most once in the registry's list of
\* an (event type, window) key, however many bind_key calls were made for
\* it; so when main() has dispatched a key event whose type and window have
\* a binding, each callback has been called once per successful bind_key
\* call that registered it for the event's window, masked state and
\* keycode.
DispatcherConnectedOnce ==
    /\ \A k \in DOMAIN callbacks : Count(KeybindDispatcher, callbacks[k]) <= 1
    /\ \A e \in Handled :
          (\E b \in bound :
              Member(b.event_type) = e.cls /\ b.key[1] = e.event)
          => \A cb \in Callbacks :
                Count(<<e.id, cb>>, fired)
                   = Cardinality({b \in bound : b.cb = cb /\ Matches(b, e)})

\* C25 witness: one callback was bound twice to the same key and a matching
\* key event has called it twice.
BoundTwiceFiredTwice ==
    \E e \in Handled, cb \in Callbacks :
        /\ Count(<<e.id, cb>>, fired) = 2
        /\ \E b, c \in bound :
              /\ b.call # c.call
              /\ b.cb = cb /\ c.cb = cb
              /\ b.event_type = c.event_type
              /\ Member(b.event_type) = e.cls
              /\ Matches(b, e) /\ Matches(c, e)

\* C26: a callback that a key event has called was bound with bind_key for
\* the event's type: KeyPress events call no callback bound only for
\* KeyRelease, and KeyRelease events none bound only for KeyPress.
FiredOnlyForBoundType ==
    \A e \in Handled, cb \in Callbacks :
        Fired(e, cb) =>
            \E b \in bound : b.cb = cb /\ Member(b.event_type) = e.cls

\* The callbacks main() has called for the event it is dispatching, in the
\* order of the calls.
RECURSIVE CalledFor(_, _)
CalledFor(id, calls) ==
    IF calls = <<>> THEN <<>>
    ELSE IF Head(calls)[1] = id
    THEN <<Head(calls)[2]>> \o CalledFor(id, Tail(calls))
    ELSE CalledFor(id, Tail(calls))

\* C27: the callbacks main() calls for an event are those its key had when
\* the dispatch of the event began, in that order: a callback that another
\* callback connects under the key during the dispatch is not called for
\* this event, and a disconnect of the key by a callback takes none away.
DispatchSetIsFixed ==
    /\ InDispatch => IsPrefix(CalledFor(cur.id, invoked), curStart)
    /\ (pc = "main_drain" /\ cur # NoEvent)
          => CalledFor(cur.id, invoked) = curStart

\* C18 witness: a key press with CapsLock and NumLock on has fired the
\* callback bound to the plain key, and not the one bound with Mod1.
FiredDespiteLocks ==
    \E e \in Handled :
        /\ e.state = {ModLock, Mod2}
        /\ \E b \in bound : b.key[2] = {} /\ Fired(e, b.cb)
        /\ \E b \in bound : b.key[2] = {"Mod1"} /\ ~Fired(e, b.cb)

\* The state after 'import keybind' with any of the keyboard mappings.
InitRemap ==
    /\ EventInitWith(KeybindImported) /\ CallInit /\ AtomInit
    /\ \E m \in KeyboardMappings : KeyInitWith(m)

\* The key strings SpecRemap binds, the grabs other clients make in it and
\* the MappingNotify events it gets besides those of Remap.
RemapKeyStrings == {<<"a">>, <<"Mod1", "a">>, <<"b">>}

RemapOtherGrabs == {Grab("key", root, {Mod2}, 8), Grab("key", root, {}, 9)}

RemapRequests == {"Modifier"}

\* The program binds keys and calls main(); the keyboard mapping changes
\* and main() handles the MappingNotify events.
NextRemap ==
    \/ \E ks \in RemapKeyStrings : BindKey("KeyPress", root, ks, "cb1")
    \/ \E g \in RemapOtherGrabs : OtherClientGrabs(g)
    \/ \E m \in KeyboardMappings : Remap(m, MaxKeyEvents)
    \/ \E r \in RemapRequests : MappingArrive(r, MaxKeyEvents)
    \/ MainStart
    \/ MainRead
    \/ MainNextEvent
    \/ MainInvoke
    \/ UpdateKeyboardMapping

SpecRemap == InitRemap /\ [][NextRemap]_vars

\* C19: the grab count of every key is at least 0, and while it is not 0
\* this client holds the server grabs of the key (every trivial-modifier
\* variant), also after binds that failed and after update_keyboard_mapping
\* has handled a keyboard remapping.
CountedKeysAreGrabbed ==
    \A key \in DOMAIN keygrabs :
        /\ keygrabs[key] >= 0
        /\ keygrabs[key] > 0
              => Variants("key", key[1], key[2], key[3]) \subseteq grabs

\* The keycode the mapping map has for the key a binding was made for (the
\* last part of its key string).
KeycodeIn(map, b) == lookup_string(map, b.key_string[Len(b.key_string)])

\* A step in which update_keyboard_mapping has handled a MappingNotify for
\* the keyboard.
RemapHandled ==
    /\ pc = "in_callback"
    /\ curList[idx] = MappingHandler
    /\ cur.request = "Keyboard"
    /\ pc' # pc

\* C21: when update_keyboard_mapping has handled a keyboard MappingNotify,
\* the module's mapping is the server's, and every binding whose key has
\* another keycode in it than the one it was bound at has its callback under
\* the key with the new keycode, whose grabs are held, while the grabs at
\* the old keycode are released unless another binding's key is there now.
RemapMovesBindings ==
    [][RemapHandled =>
          /\ kbmap' = serverMap
          /\ \A b \in bound :
                LET newkc == KeycodeIn(serverMap, b)
                    new == <<b.key[1], b.key[2], newkc>>
                IN  (newkc # NoKeycode /\ newkc # b.key[3]) =>
                      /\ new \in DOMAIN keybinds'
                      /\ \E i \in 1..Len(keybinds'[new]) :
                            keybinds'[new][i] = b.cb
                      /\ Variants("key", new[1], new[2], new[3])
                            \subseteq grabs'
                      /\ (\A c \in bound :
                             <<c.key[1], c.key[2], KeycodeIn(serverMap, c)>>
                                # b.key)
                            => Variants("key", b.key[1], b.key[2], b.key[3])
                                  \cap grabs' = {}]_vars

\* The grabs a call recorded in keyRet asked for.
AskedFor(r) ==
    Variants(IF r.op = "grab_button" THEN "button" ELSE "key",
             r.key[1], r.key[2], r.key[3])

\* A step in which grab_key, grab_button or bind_key has asked the server
\* for grabs.
GrabAttempted == grabCalls' = grabCalls + 1

\* C16: a call of grab_key, grab_button or bind_key that asks the server for
\* grabs never raises; it returns False when the server refuses one of the
\* trivial-modifier variants because another client holds it, and True when
\* all the variants were grabbed, which this client then holds.
GrabRefusalIsFalse ==
    [][GrabAttempted =>
          /\ keyRet'.op \in {"grab_key", "grab_button", "bind_key"}
          /\ ~keyRet'.raised
          /\ keyRet'.ok = (AskedFor(keyRet') \cap foreign = {})
          /\ keyRet'.ok => AskedFor(keyRet') \subseteq grabs']_vars

\* C16 witness: grab_button has grabbed all the variants of a button, and
\* bind_key has returned False for a key another client holds a grab on.
GrabRefusedSeen ==
    /\ keyRet.op = "bind_key"
    /\ ~keyRet.ok
    /\ ~keyRet.raised
    /\ keyRet.key[3] # NoKeycode
    /\ AskedFor(keyRet) \cap foreign # {}
    /\ Variants("button", root, {}, 1) \subseteq grabs

\* A step in which bind_key has returned False.
BindFailed ==
    /\ keyCalls' = keyCalls + 1
    /\ keyRet'.op = "bind_key"
    /\ ~keyRet'.ok

\* C29: a bind_key that fails, for a key string without keycode or for a
\* grab the server refuses, adds no callback to the table of bindings,
\* raises no grab count and connects no dispatcher.
FailedBindChangesNothing ==
    [][BindFailed =>
          /\ keybinds' = keybinds
          /\ \A key \in DOMAIN keygrabs' :
                keygrabs'[key] = GrabCount(keygrabs, key)
          /\ callbacks' = callbacks
          /\ bound' = bound]_vars

\* C29 witness: with one key bound, a bind_key of another key was refused
\* by the server, and the table holds the first binding only.
RefusedBindAfterBind ==
    /\ keyRet.op = "bind_key"
    /\ ~keyRet.ok
    /\ keyRet.key[3] # NoKeycode
    /\ AskedFor(keyRet) \cap foreign # {}
    /\ DOMAIN keybinds # {}
    /\ keyRet.key \notin DOMAIN keybinds
    /\ keyRet.key \in DOMAIN keygrabs

\* C20: when grab_key, grab_button or bind_key returns False after the
\* server refused a variant, none of the variants the call acquired is
\* still held: the grabs it made before the refusal have been released.
GrabIsAllOrNothing ==
    [][GrabAttempted /\ ~keyRet'.ok =>
          (AskedFor(keyRet') \cap grabs') \subseteq grabs]_vars

\* A step in which the program has undone a binding of a key: keybind.py
\* has no unbind function, ungrab_key is the operation that gives a bound
\* key back.
Unbound == ungrabCalls' = ungrabCalls + 1

\* C17: a bind of a key that is already bound issues no server grab and
\* adds one to its count; undoing one binding of a key takes one from its
\* count and leaves the server grab held while the count is not 0 (bound
\* twice and unbound once: 1, 2, 1, still grabbed).
GrabIsReferenceCounted ==
    [][/\ (keyRet'.op = "bind_key" /\ keyCalls' # keyCalls /\ keyRet'.ok
           /\ GrabCount(keygrabs, keyRet'.key) > 0)
          => /\ grabCalls' = grabCalls
             /\ GrabCount(keygrabs', keyRet'.key)
                   = GrabCount(keygrabs, keyRet'.key) + 1
       /\ (Unbound /\ GrabCount(keygrabs, keyRet'.key) > 0)
          => /\ GrabCount(keygrabs', keyRet'.key)
                   = GrabCount(keygrabs, keyRet'.key) - 1
             /\ GrabCount(keygrabs', keyRet'.key) > 0
                   => AskedFor(keyRet') \subseteq grabs']_vars

\* The atom functions of util.py, called in any order.
NextAtom ==
    \/ \E n \in AtomNames, b \in BOOLEAN : GetAtom(n, b)
    \/ \E a \in AtomIds : GetAtomName(a)
    \/ \E ns \in AtomLists : BuildAtomCache(ns)

SpecAtom == Init /\ [][NextAtom]_vars

\* Every entry of the dict d is an entry of the dict e.
EntriesKept(d, e) == \A k \in DOMAIN d : k \in DOMAIN e /\ e[k] = d[k]

\* C22: an entry of the atom cache, name -> identifier or identifier ->
\* name, is still there with the same value after every call of get_atom,
\* get_atom_name and build_atom_cache.
AtomCacheEntriesStay ==
    [][/\ EntriesKept(atom_cache, atom_cache')
       /\ EntriesKept(atom_nm_cache, atom_nm_cache')]_vars

\* C28: every name -> identifier entry of the atom cache is the identifier
\* the server has for the name now (0, no atom, only while the server has
\* no atom of that name), so a get_atom that interns the atom returns its
\* non-zero identifier whatever was asked before.
AtomCacheMatchesServer ==
    \A n \in DOMAIN atom_cache :
        atom_cache[n] = IF n \in DOMAIN serverAtoms THEN serverAtoms[n] ELSE 0

TypeOK ==
    /\ arrived \in 0..(MaxEvents + MaxRouteEvents)
    /\ pc \in {"idle", "main_read", "main_drain", "main_dispatch",
               "in_callback", "exited", "propagated"}
    /\ Len(queue) + Len(pending) + Len(yielded) = arrived

------------------------------------------------------------------------------
\* The callbacks main() has invoked for the event with identity i, in order.
InvokedFor(i) ==
    LET s == SelectSeq(invoked, LAMBDA x : x[1] = i)
    IN  [k \in 1..Len(s) |-> s[k][2]]

\* main() has finished the inner for loop of the event cur.
DispatchDone == pc \in {"main_drain", "main_read"} /\ cur # NoEvent

\* A step that is a call of the API by user code: the transport and the
\* position of main() are as before.
ApiStep == pc' = pc /\ arrived' = arrived

\* The sequence 1, 2, ..., n.
UpTo(n) == [i \in 1..n |-> i]

\* C1: whatever the interleaving of blocking reads, polling reads and
\* iterations of queue() (by main() and by user code, also inside a
\* callback), the events queue() has yielded so far, followed by the events
\* it would yield from the buffer, followed by the events still in the
\* transport, are all the events delivered, each once, in arrival order.
QueueYieldsArrivalOrder ==
    Ids(yielded \o DrainOrder(queue) \o pending) = UpTo(arrived)

\* C1 witness: main() took the first event from queue() and, inside the
\* callback it invoked, user code iterating queue() took the second.
QueueNestedDrain ==
    /\ pc = "in_callback"
    /\ dispatched = <<1>>
    /\ Ids(yielded) = <<1, 2>>

\* C2: peek() returns the buffered events oldest first, the order in which
\* queue() would yield them, and leaves the buffer as it was.
PeekOldestFirst ==
    [][Peek => (ret'.events = DrainOrder(queue) /\ queue' = queue)]_vars

\* C3: read(block) makes one blocking wait when block is true and none
\* otherwise, and then takes every event the transport has pending: the
\* transport is left empty and the new events drain after the ones
\* buffered before, oldest first, so that after read(True) the buffer is
\* not empty.
ReadTakesAllPending ==
    [][\A b \in BOOLEAN :
          ReadCall(b) =>
             /\ pending' = <<>>
             /\ DrainOrder(queue') = DrainOrder(queue) \o pending
             /\ ret'.waits = (IF b THEN 1 ELSE 0)
             /\ b => Len(queue') >= Len(queue) + 1]_vars

\* C3 witness: a blocking read has returned with the event it waited for
\* and one more that was pending.
ReadBlockingGainedTwo ==
    /\ ret.op = "read"
    /\ ret.block
    /\ Ids(DrainOrder(queue)) = <<1, 2>>
    /\ pending = <<>>

\* C7: main() takes the events in arrival order, and every callback of one
\* event is invoked before any callback of the next event.
DispatchRunsToCompletion ==
    /\ \A i, j \in 1..Len(dispatched) :
          i < j => dispatched[i] < dispatched[j]
    /\ \A i, j \in 1..Len(invoked) :
          i < j => invoked[i][1] <= invoked[j][1]
    /\ \A i \in 1..Len(invoked) :
          \E j \in 1..Len(dispatched) : dispatched[j] = invoked[i][1]
    /\ InDispatch => dispatched[Len(dispatched)] = cur.id

\* C7 witness: two events, each dispatched to two callbacks.
DispatchedTwoEventsTwice ==
    /\ Len(invoked) = 4
    /\ invoked[2][1] = 1
    /\ invoked[3][1] = 2

------------------------------------------------------------------------------
\* The event e is of no special-cased type and has the attribute window.
HasWindowField(e) ==
    /\ e.cls \notin {"MappingNotifyEvent", "MapRequestEvent"}
    /\ e.window # Absent

\* C4: for an event of a non-special-cased type with a window field W,
\* main() invokes the callbacks registered under (type(event), W), in the
\* order of registration, and nothing else: while the event is being
\* dispatched the callbacks invoked are a prefix of that list, and when its
\* dispatch is done they are the whole list (the registry not being changed
\* by a callback meanwhile).
RoutedByWindowField ==
    (cur # NoEvent /\ ~touched /\ HasWindowField(cur)) =>
        /\ IsPrefix(InvokedFor(cur.id), Registered(<<cur.cls, cur.window>>))
        /\ DispatchDone =>
              InvokedFor(cur.id) = Registered(<<cur.cls, cur.window>>)

\* C4 witness: a MapNotify event with window w1 and event root was
\* dispatched to the two callbacks registered under (MapNotify, w1), in the
\* order cb2, cb1 in which they were connected.
RoutedToTwoInOrder ==
    /\ DispatchDone
    /\ cur.cls = "MapNotifyEvent"
    /\ cur.window = "w1"
    /\ Registered(<<"MapNotifyEvent", "w1">>) = <<"cb2", "cb1">>
    /\ InvokedFor(cur.id) = <<"cb2", "cb1">>

\* C5: a MapRequest event is dispatched to the callbacks registered under
\* (MapRequest, root), whatever its window field, and so never to those
\* registered under (MapRequest, W1) for another window W1.
MapRequestRoutedToRoot ==
    (cur.cls = "MapRequestEvent" /\ ~touched) =>
        /\ IsPrefix(InvokedFor(cur.id),
                    Registered(<<"MapRequestEvent", root>>))
        /\ DispatchDone =>
              InvokedFor(cur.id) = Registered(<<"MapRequestEvent", root>>)

\* C5 witness: a MapRequest for w1 was dispatched to cb2, registered under
\* (MapRequest, root), and not to cb1, registered under (MapRequest, w1).
MapRequestForOtherWindow ==
    /\ DispatchDone
    /\ cur.cls = "MapRequestEvent"
    /\ cur.window = "w1"
    /\ Registered(<<"MapRequestEvent", "w1">>) = <<"cb1">>
    /\ InvokedFor(cur.id) = <<"cb2">>

\* The first of the values that is not Absent, None when all are.
FirstPresent(values) ==
    LET present == {i \in 1..Len(values) : values[i] # Absent}
    IN  IF present = {} THEN None
        ELSE values[CHOOSE i \in present : \A j \in present : i <= j]

\* The window the claim C6 routes the event e by.
PriorityWindow(e) ==
    IF e.cls = "MappingNotifyEvent" THEN None
    ELSE FirstPresent(<<e.window, e.event, e.owner, e.requestor>>)

\* C6: an event that is neither MappingNotify nor MapRequest is routed by
\* the first present of its attributes window, event, owner, requestor, and
\* MappingNotify by the wildcard None: that is the key main() looks up and
\* the callbacks it invokes.
RoutedByFirstPresentField ==
    (cur # NoEvent /\ cur.cls # "MapRequestEvent") =>
        /\ curKey = <<cur.cls, PriorityWindow(cur)>>
        /\ (DispatchDone /\ ~touched) =>
              InvokedFor(cur.id) = Registered(<<cur.cls, PriorityWindow(cur)>>)

\* C6 witness: a MapNotify event carrying window w1 and event root went to
\* the callback of (MapNotify, w1) and not to the one of (MapNotify, root).
RoutedByWindowNotEvent ==
    /\ DispatchDone
    /\ cur.cls = "MapNotifyEvent"
    /\ cur.window = "w1"
    /\ cur.event = root
    /\ Registered(<<"MapNotifyEvent", root>>) = <<"cb1">>
    /\ InvokedFor(cur.id) = <<"cb2">>

\* C8: connect() adds the callback to the list of the key even when it is
\* there already, is_connected() is true as soon as the callback is there
\* once, and an event of the key invokes a callback as many times as it is
\* in the list.
ConnectDoesNotDeduplicate ==
    [][/\ \A r \in ReentrantRegs, cb \in Callbacks :
             (/\ ApiStep /\ ret'.op = "connect" /\ ~ret'.raised
              /\ Connect(r[1], r[2], cb))
             => /\ Count(cb, Registered(Key(r[1], r[2]))') =
                      Count(cb, Registered(Key(r[1], r[2]))) + 1
                /\ Len(Registered(Key(r[1], r[2]))') =
                      Len(Registered(Key(r[1], r[2]))) + 1
       /\ \A r \in ReentrantRegs, cb \in Callbacks :
             (/\ ApiStep /\ ret'.op = "is_connected" /\ ~ret'.raised
              /\ IsConnected(r[1], r[2], cb))
             => ret'.truth = (Count(cb, Registered(Key(r[1], r[2]))) >= 1)
       /\ (InDispatch /\ DispatchDone' /\ ~touched)
             => \A cb \in Callbacks :
                   Count(cb, InvokedFor(cur.id)) =
                      Count(cb, Registered(curKey))]_vars

\* C8 witness: cb1 was connected twice under one key and an event of that
\* key invoked it twice.
SameCallbackInvokedTwice ==
    /\ DispatchDone
    /\ Registered(curKey) = <<"cb1", "cb1">>
    /\ InvokedFor(cur.id) = <<"cb1", "cb1">>

\* What disconnect() of the key does to the registry.
DisconnectEffect(key) ==
    /\ key \notin DOMAIN callbacks'
    /\ \A cb \in Callbacks : ~IsConnectedValue(key, cb)'
    /\ \A k \in (DOMAIN callbacks \cup DOMAIN callbacks') \ {key} :
          Registered(k)' = Registered(k)
    /\ key \notin DOMAIN callbacks => callbacks' = callbacks

\* C9 as claimed: disconnect() removes the key with all its callbacks and
\* leaves the other keys alone, and from then on no callback fires for the
\* key: whenever main() invokes a callback, the key it dispatches by is in
\* the registry.
DisconnectSilencesKey ==
    [][/\ \A r \in ReentrantRegs :
             (/\ ApiStep /\ ret'.op = "disconnect" /\ ~ret'.raised
              /\ Disconnect(r[1], r[2])) =>
                 DisconnectEffect(Key(r[1], r[2]))
       /\ invoked' # invoked => curKey \in DOMAIN callbacks]_vars

\* C9 as amended: disconnect() removes the key with all its callbacks and
\* leaves the other keys alone; the callbacks of an event whose dispatch had
\* begun when a callback disconnected the key still fire, the events
\* dispatched later invoke none.
DisconnectRemovesKey ==
    [][/\ \A r \in ReentrantRegs :
             (/\ ApiStep /\ ret'.op = "disconnect" /\ ~ret'.raised
              /\ Disconnect(r[1], r[2])) =>
                 DisconnectEffect(Key(r[1], r[2]))
       /\ invoked' # invoked =>
             \/ curKey \in DOMAIN callbacks
             \/ touched /\ ~curAttached]_vars

\* C9 witness: the first of two callbacks of a key disconnected the key
\* while main() was dispatching an event of it, and the second one fired.
DisconnectedInFlight ==
    /\ pc = "in_callback"
    /\ Len(curList) = 2
    /\ Len(InvokedFor(cur.id)) = 2
    /\ touched
    /\ callbacks = <<>>

\* The names of the protocol events of the model.
ProtocolEventNames ==
    {"KeyPress", "MapNotify", "MapRequest", "SelectionRequest",
     "MappingNotify"}

\* C10: connect, disconnect and is_connected called with a name that is no
\* protocol event raise AssertionError and leave the registry unchanged.
UnknownEventNameAsserts ==
    [][\A r \in RouteRegs, cb \in Callbacks :
          (/\ ApiStep
           /\ r[1] \notin ProtocolEventNames
           /\ \/ Connect(r[1], r[2], cb)
              \/ Disconnect(r[1], r[2])
              \/ IsConnected(r[1], r[2], cb)) =>
              (ret'.raised /\ callbacks' = callbacks)]_vars

\* C10 witness: connect() with an unknown name has raised, the registry
\* holding a callback.
ConnectUnknownRaised ==
    /\ ret.op = "connect"
    /\ ret.raised
    /\ callbacks # <<>>
\* C11: an exception that a callback raises ends main(): it is raised
\* inside a callback, main() is left at once (through print_exc and
\* sys.exit(1) for an exception of the connection, by propagation
\* otherwise), and from then on no callback is invoked and no event is
\* taken, neither for the rest of that event's callbacks nor for the events
\* still buffered.
CallbackExceptionIsFatal ==
    [][/\ (exc = None /\ exc' # None) =>
            /\ pc = "in_callback"
            /\ pc' \in {"exited", "propagated"}
            /\ (exc' = xcb_Exception) = (pc' = "exited")
            /\ invoked' = invoked
       /\ (exc # None) =>
            /\ invoked' = invoked
            /\ dispatched' = dispatched
            /\ pc' = pc]_vars

\* C11 witness: the first of two callbacks of an event raised while another
\* event was still buffered; the second callback was not invoked.
RaisedWithWorkLeft ==
    /\ exc # None
    /\ idx < Len(curList)
    /\ queue # <<>>
    /\ Len(invoked) = 1

\* Word k of the packed message: the window, the message type and the five
\* data words, a missing data word being 0.
MessageWord(k) ==
    IF k = 0 THEN call.window
    ELSE IF k = 1 THEN call.message_type
    ELSE IF k - 1 <= Len(call.data) THEN call.data[k - 1]
    ELSE 0

\* The 32 bytes of the message, the words laid out with the byte of weight
\* 256^Weight(i) at offset i of each word.
PackedLayout(Weight(_)) ==
    /\ ~result.raised
    /\ Len(result.bytes) = 32
    /\ result.bytes[1] = 33
    /\ result.bytes[2] = 32
    /\ result.bytes[3] = 0
    /\ result.bytes[4] = 0
    /\ \A k \in 0..6, i \in 0..3 :
          result.bytes[5 + 4 * k + i] =
              (MessageWord(k) \div (256 ^ Weight(i))) % 256

LittleEndianWeight(i) == i
BigEndianWeight(i) == 3 - i

\* C12 as claimed: a call with at most 5 data words yields 32 bytes, 33, 32,
\* 0, 0 and then the window, the message type and the five zero-padded data
\* words as little-endian 32-bit integers; a call with more than 5 data
\* words is rejected.
PackIsLittleEndian ==
    result.op = "pack_client_message" =>
        IF Len(call.data) > 5 THEN result.raised
        ELSE PackedLayout(LittleEndianWeight)

\* C12 as amended: the same layout with the 32-bit integers in the byte
\* order of the host, little-endian on a little-endian host and big-endian
\* on a big-endian one.
PackIsNativeOrder ==
    result.op = "pack_client_message" =>
        IF Len(call.data) > 5 THEN result.raised
        ELSE IF call.byteorder = "little"
             THEN PackedLayout(LittleEndianWeight)
             ELSE PackedLayout(BigEndianWeight)

\* C12 witness: window 5, message type 9 and the data words 1, 2 packed on a
\* little-endian host.
PackedExample ==
    /\ call.op = "pack_client_message"
    /\ call.byteorder = "little"
    /\ call.window = 5 /\ call.message_type = 9 /\ call.data = <<1, 2>>
    /\ result.op = "pack_client_message"
    /\ result.bytes = <<33, 32, 0, 0,  5, 0, 0, 0,  9, 0, 0, 0,  1, 0, 0, 0,
                        2, 0, 0, 0,  0, 0, 0, 0,  0, 0, 0, 0,  0, 0, 0, 0>>

\* C13: get_atom for a name that is in the cache, and get_atom_name for an
\* identifier that is in the reverse cache, send no request to the X
\* server.
CachedAtomNeedsNoRequest ==
    [][(atomCalls' = atomCalls + 1) =>
          /\ (atomRet'.op = "get_atom"
                  /\ atomRet'.name \in DOMAIN atom_cache)
                => interns' = interns
          /\ (atomRet'.op = "get_atom_name"
                  /\ atomRet'.atom \in DOMAIN atom_nm_cache)
                => nameReqs' = nameReqs]_vars

\* The UTF-8 encoding of a string of code points below 2048.
RECURSIVE Utf8Encode(_)
Utf8Encode(text) ==
    IF text = <<>> THEN <<>>
    ELSE (IF Head(text) < 128 THEN <<Head(text)>>
          ELSE <<192 + (Head(text) \div 64), 128 + (Head(text) % 64)>>)
         \o Utf8Encode(Tail(text))

\* The encodings of the strings ts, with one NUL between neighbours.
RECURSIVE JoinNul(_)
JoinNul(ts) ==
    IF ts = <<>> THEN <<>>
    ELSE IF Len(ts) = 1 THEN Utf8Encode(ts[1])
    ELSE Utf8Encode(ts[1]) \o <<0>> \o JoinNul(Tail(ts))

\* The buffer without its terminating NUL, when it has one.
WithoutTerminator(buf) ==
    IF buf # <<>> /\ buf[Len(buf)] = 0 THEN SubSeq(buf, 1, Len(buf) - 1)
    ELSE buf

\* C15: for a non-empty format-8 buffer of valid UTF-8, get_property_value
\* returns the strings between the NULs of the buffer, the empty segment
\* after a terminating NUL left out: one string when the buffer holds no
\* other NUL, and the list of the strings, in order, when it does.
TextSplitOnNul ==
    (/\ result.op = "get_property_value"
     /\ call.reply.format = 8
     /\ call.reply.buf # <<>>
     /\ Utf8Decode(call.reply.buf).ok) =>
        LET v == result.value
            text == WithoutTerminator(call.reply.buf)
        IN  /\ v.tag \in {"str", "strs"}
            /\ \A i \in 1..Len(v.strs) :
                  \A j \in 1..Len(v.strs[i]) : v.strs[i][j] # 0
            /\ JoinNul(v.strs) = text
            /\ (v.tag = "str") = (\A i \in 1..Len(text) : text[i] # 0)

\* C14: the getter's reply for a property its setter has just written is
\* the value written, for every well-formed value, the all-zero records and
\* the empty lists included.
CodecRoundTrip ==
    result.op = "set_get" =>
        (result.tag = "value" /\ result.value = call.value)

==============================================================================
